---------------------------- MODULE Spec2Model ----------------------------
(***************************************************************************)
(* A model of the meeting-minutes pipeline (src/src/*.py):                 *)
(*   - FollowUpTracker (followup_tracking.py): deadline parsing and the    *)
(*     overdue / upcoming / on_track / no_deadline categorisation;         *)
(*   - ActionItemExtractor.extract_deadline (action_extraction.py);        *)
(*   - TranscriptPreprocessor (preprocessing.py): cleaning, turn           *)
(*     segmentation, participants;                                         *)
(*   - SmartOfficeAgent (pipeline.py): the order in which one run consults *)
(*     the extractor and the tracker.                                      *)
(*                                                                         *)
(* Time.  A datetime is a number of ticks since an epoch that is a Monday  *)
(* 00:00; a day has TicksPerDay ticks.  A date is a day ordinal.           *)
(*                                                                         *)
(* Text.  A string is a sequence of tokens.  For deadline phrases and      *)
(* sentences a token is a lower-cased word, number or date literal (the    *)
(* single blanks between them are implicit); for transcripts a token is a  *)
(* word, a punctuation mark or one whitespace character.                   *)
(***************************************************************************)
EXTENDS Integers, Sequences, FiniteSets, Bags, TLC

VARIABLES
    clock,          \* the wall clock every datetime.now() reads
    current_date,   \* FollowUpTracker.current_date (set once, in __init__)
    last,           \* the last tracker / extractor / pipeline call and its result
    pre             \* the last preprocessing call and its result

vars == <<clock, current_date, last, pre>>

---------------------------------------------------------------------------
(* Bounds of the model *)

TicksPerDay == 2     \* clock resolution: ticks in one day
MaxDay      == 8     \* the clock stops at the end of this day
MaxLag      == 3     \* largest age (in ticks) of a tracker that is still used
MaxN        == 4     \* largest N of an "in N days" phrase
MaxItems    == 2     \* longest list of action items handed to the tracker
MaxSentences == 2    \* most action sentences in one pipeline run
MaxLines    == 3     \* most lines of a transcript

---------------------------------------------------------------------------
(* datetime / timedelta *)

\* datetime.date() of a datetime
DateOf(t) == t \div TicksPerDay

\* the datetime strptime returns for a date: that day, 00:00
Midnight(d) == d * TicksPerDay

\* datetime.weekday(): Monday is 0
Weekday(t) == DateOf(t) % 7

\* datetime + timedelta(days = n)
PlusDays(t, n) == t + n * TicksPerDay

\* (a - b).days : timedelta normalises to a floor division
DaysBetween(a, b) == (a - b) \div TicksPerDay

\* parse_deadline's None
NoDate == -1

---------------------------------------------------------------------------
(* Tokens of deadline phrases *)

Tok(k, v) == [k |-> k, v |-> v]

W(k) == Tok(k, 0)               \* a word
Num(n) == Tok("num", n)         \* a decimal number of one or two digits
Ord(n) == Tok("ord", n)         \* a number with st/nd/rd/th, as in "1st"
Iso(d) == Tok("iso", d)         \* the YYYY-MM-DD text of date d
Us(d)  == Tok("us", d)          \* the MM/DD/YYYY text of date d

\* day_names, in list order (followup_tracking.py:54, action_extraction.py:93)
day_names == <<"monday", "tuesday", "wednesday", "thursday",
               "friday", "saturday", "sunday">>

IsDayName(k) == \E i \in 1..Len(day_names) : day_names[i] = k

\* day_names.index(day)
DayIndex(k) == (CHOOSE i \in 1..Len(day_names) : day_names[i] = k) - 1

\* `day in s`: the first name of day_names (list order) that occurs in s,
\* 0 when none does; otherwise its position in day_names (1-based)
FirstDayIn(s) ==
    LET hits == {i \in 1..Len(day_names) :
                    \E j \in 1..Len(s) : s[j].k = day_names[i]}
    IN  IF hits = {} THEN 0
        ELSE CHOOSE i \in hits : \A j \in hits : i <= j

\* (Mutant of DaysAhead: the roll of 0 to 7 forgotten, so that a weekday
\* resolved on that weekday gives today.)
DaysAhead_NoRoll(dayIdx, today) == (dayIdx - Weekday(today)) % 7

\* (index(day) - today.weekday()) % 7, with 0 rolled to 7
DaysAhead(dayIdx, today) ==
    LET days_ahead == (dayIdx - Weekday(today)) % 7
    IN  IF days_ahead = 0 THEN 7 ELSE days_ahead

\* re.search(r'in\s+(\d+)\s+days?', s): position of the leftmost match, 0 if none
InDaysAt(s) ==
    LET hits == {i \in 1..(Len(s) - 2) :
                    /\ s[i].k = "in"
                    /\ s[i + 1].k = "num"
                    /\ s[i + 2].k = "days"}
    IN  IF hits = {} THEN 0
        ELSE CHOOSE i \in hits : \A j \in hits : i <= j

---------------------------------------------------------------------------
(* FollowUpTracker *)

\* The entries of a list
Range(seq) == {seq[i] : i \in 1..Len(seq)}

\* An Optional[str] is <<>> (None) or <<s>>; `not x` holds of None and of ""
None == <<>>
Some(s) == <<s>>
Truthy(opt) == opt # <<>> /\ opt[1] # <<>>

\* parse_deadline(deadline_str); `now` is what datetime.now() returns in it
parse_deadline(s, now) ==
    IF s = <<>> THEN NoDate
    ELSE IF Len(s) = 1 /\ s[1].k = "iso" THEN Midnight(s[1].v)
    ELSE IF Len(s) = 1 /\ s[1].k = "us" THEN Midnight(s[1].v)
    ELSE IF FirstDayIn(s) # 0
         THEN PlusDays(now, DaysAhead(FirstDayIn(s) - 1, now))
    ELSE IF InDaysAt(s) # 0
         THEN PlusDays(now, s[InDaysAt(s) + 1].v)
    ELSE NoDate

\* (Mutant of is_overdue: <= for <, so that a deadline equal to the reference
\* now counts as overdue.)
is_overdue_Inclusive(item, cur, now) ==
    IF ~Truthy(item.deadline) THEN FALSE
    ELSE LET deadline == parse_deadline(item.deadline[1], now)
         IN  IF deadline # NoDate THEN deadline <= cur ELSE FALSE

\* is_overdue(action_item)
is_overdue(item, cur, now) ==
    IF ~Truthy(item.deadline) THEN FALSE
    ELSE LET deadline == parse_deadline(item.deadline[1], now)
         IN  IF deadline # NoDate THEN deadline < cur ELSE FALSE

\* is_upcoming(action_item, days_ahead = 3)
is_upcoming(item, cur, now, days_ahead) ==
    IF ~Truthy(item.deadline) THEN FALSE
    ELSE LET deadline == parse_deadline(item.deadline[1], now)
         IN  IF deadline # NoDate
             THEN LET days_until == DaysBetween(deadline, cur)
                  IN  0 <= days_until /\ days_until <= days_ahead
             ELSE FALSE

\* default of is_upcoming's days_ahead
UpcomingDays == 3


\* The dictionary keys of categorize_action_items
Categories == {"overdue", "upcoming", "on_track", "no_deadline"}

\* (Mutant of CategoryOf: the final else branch lost, so that an item that is
\* neither overdue nor upcoming is appended to no list.)
CategoryOf_NoElse(item, cur, r1, r2) ==
    IF ~Truthy(item.deadline) THEN "no_deadline"
    ELSE IF is_overdue(item, cur, r1) THEN "overdue"
    ELSE IF is_upcoming(item, cur, r2, UpcomingDays) THEN "upcoming"
    ELSE "dropped"

\* (Mutant of CategoryOf: an item whose deadline does not parse is filed as
\* having no deadline.)
CategoryOf_UnparsedAsNone(item, cur, r1, r2) ==
    IF ~Truthy(item.deadline) \/ parse_deadline(item.deadline[1], r1) = NoDate
    THEN "no_deadline"
    ELSE IF is_overdue(item, cur, r1) THEN "overdue"
    ELSE IF is_upcoming(item, cur, r2, UpcomingDays) THEN "upcoming"
    ELSE "on_track"

\* The branch of categorize_action_items' if / elif chain an item takes: the
\* key of the list it is appended to.  r1 and r2 are the clock values seen by
\* is_overdue's and by is_upcoming's parse_deadline.
CategoryOf(item, cur, r1, r2) ==
    IF ~Truthy(item.deadline) THEN "no_deadline"
    ELSE IF is_overdue(item, cur, r1) THEN "overdue"
    ELSE IF is_upcoming(item, cur, r2, UpcomingDays) THEN "upcoming"
    ELSE "on_track"

\* the items appended to categories[c], in loop order
RECURSIVE Appended(_, _, _)
Appended(items, keys, c) ==
    IF items = <<>> THEN <<>>
    ELSE LET rest == Appended(Tail(items), Tail(keys), c)
         IN  IF Head(keys) = c THEN <<Head(items)>> \o rest ELSE rest

\* categorize_action_items(action_items).  rd is the sequence of clock values
\* the call sees: item i's is_overdue reads rd[2i-1], its is_upcoming rd[2i].
categorize_action_items(items, cur, rd) ==
    LET keys == [i \in 1..Len(items) |->
                    CategoryOf(items[i], cur, rd[2 * i - 1], rd[2 * i])]
    IN  [c \in Categories |-> Appended(items, keys, c)]

---------------------------------------------------------------------------
(* ActionItemExtractor.extract_deadline *)

\* \w+ : a run of word characters (a word or a number; not a date literal)
IsWordTok(x) == x.k \notin {"iso", "us"}

\* \d{1,2} at the start of the token
IsNumTok(x) == x.k \in {"num", "ord"}

\* \w+day : a word that ends in "day" (a weekday name, or "today")
IsXDay(x) == IsDayName(x.k) \/ x.k = "today"

\* The smallest member of a non-empty set of positions, 0 for the empty set
Leftmost(S) == IF S = {} THEN 0 ELSE CHOOSE i \in S : \A j \in S : i <= j

\* Number of entries of self.deadline_patterns
NumDeadlinePatterns == 9

\* re.search(self.deadline_patterns[p], text_lower): the start of the
\* leftmost match of pattern p in the token sequence t, 0 when there is none
DeadlineMatchAt(p, t) ==
    LET n == Len(t)
    IN  CASE p = 1 -> Leftmost({i \in 1..(n - 2) :
                        t[i].k = "by" /\ IsWordTok(t[i + 1]) /\ IsNumTok(t[i + 2])})
          [] p = 2 -> Leftmost({i \in 1..(n - 1) :
                        t[i].k = "by" /\ IsXDay(t[i + 1])})
          [] p = 3 -> Leftmost({i \in 1..(n - 3) :
                        /\ t[i].k = "deadline" /\ t[i + 1].k = "is"
                        /\ IsWordTok(t[i + 2]) /\ IsNumTok(t[i + 3])})
          [] p = 4 -> Leftmost({i \in 1..(n - 2) :
                        t[i].k = "due" /\ IsWordTok(t[i + 1]) /\ IsNumTok(t[i + 2])})
          [] p = 5 -> Leftmost({i \in 1..n : t[i].k = "us"})
          [] p = 6 -> Leftmost({i \in 1..n : t[i].k = "iso"})
          [] p = 7 -> InDaysAt(t)
          [] p = 8 -> Leftmost({i \in 1..(n - 1) :
                        t[i].k = "next" /\ IsXDay(t[i + 1])})
          [] p = 9 -> Leftmost({i \in 1..(n - 1) :
                        t[i].k = "this" /\ IsXDay(t[i + 1])})

\* match.group(1) of pattern p matched at position i
DeadlineGroup(p, t, i) ==
    CASE p = 1 -> <<t[i + 1], t[i + 2]>>
      [] p = 2 -> <<t[i + 1]>>
      [] p = 3 -> <<t[i + 2], Num(t[i + 3].v)>>
      [] p = 4 -> <<t[i + 1], Num(t[i + 2].v)>>
      [] p = 5 -> <<t[i]>>
      [] p = 6 -> <<t[i]>>
      [] p = 7 -> <<t[i + 1]>>
      [] p = 8 -> <<t[i + 1]>>
      [] p = 9 -> <<t[i + 1]>>

\* re.search(r'(\d+)\s+days?', s): leftmost number followed by "day(s)"
NumDaysAt(s) ==
    Leftmost({i \in 1..(Len(s) - 1) : s[i].k = "num" /\ s[i + 1].k = "days"})

\* strftime('%Y-%m-%d') of a datetime
IsoText(t) == <<Iso(DateOf(t))>>

\* (Mutant of NormalizeDeadline: days_ahead == 0 is not moved to the next
\* week, so that a weekday named on that weekday gives today's date.)
NormalizeDeadline_NoRoll(deadline_str, now) ==
    IF /\ \/ \E j \in 1..Len(deadline_str) : deadline_str[j].k = "in"
          \/ NumDaysAt(deadline_str) = 1
       /\ NumDaysAt(deadline_str) # 0
    THEN IsoText(PlusDays(now, deadline_str[NumDaysAt(deadline_str)].v))
    ELSE IF FirstDayIn(deadline_str) # 0
    THEN IsoText(PlusDays(now, DaysAhead_NoRoll(FirstDayIn(deadline_str) - 1, now)))
    ELSE deadline_str

\* what extract_deadline does with the captured deadline_str (lines 83-109)
NormalizeDeadline(deadline_str, now) ==
    IF /\ \/ \E j \in 1..Len(deadline_str) : deadline_str[j].k = "in"
          \/ NumDaysAt(deadline_str) = 1
       /\ NumDaysAt(deadline_str) # 0
    THEN IsoText(PlusDays(now, deadline_str[NumDaysAt(deadline_str)].v))
    ELSE IF FirstDayIn(deadline_str) # 0
    THEN IsoText(PlusDays(now, DaysAhead(FirstDayIn(deadline_str) - 1, now)))
    ELSE deadline_str

\* extract_deadline(text): the first pattern of the list that matches decides
extract_deadline(t, now) ==
    LET hits == {p \in 1..NumDeadlinePatterns : DeadlineMatchAt(p, t) # 0}
    IN  IF hits = {} THEN None
        ELSE LET p == Leftmost(hits)
             IN  Some(NormalizeDeadline(
                        DeadlineGroup(p, t, DeadlineMatchAt(p, t)), now))

---------------------------------------------------------------------------
(* Inputs *)

\* ActionItem(task, owner, deadline, priority)
ActionItem(task, owner, deadline, priority) ==
    [task |-> task, owner |-> owner, deadline |-> deadline, priority |-> priority]

\* the i-th task text of a list (extract_action_items returns distinct tasks)
TaskText(i) == <<W("task"), Num(i)>>

WeekdayWords == {W(day_names[i]) : i \in 1..Len(day_names)}

\* Deadline strings handed to parse_deadline directly
DeadlineStrs(today) ==
       {<<>>}
    \cup {<<Iso(d)>> : d \in (today - 1)..(today + 4)}
    \cup {<<Us(d)>> : d \in (today - 1)..(today + 4)}
    \cup {<<w>> : w \in WeekdayWords}
    \cup {<<W("next"), w>> : w \in WeekdayWords}
    \cup {<<W("in"), Num(n), W("days")>> : n \in 0..MaxN}
    \cup {<<W("friday"), W("in"), Num(n), W("days")>> : n \in 0..MaxN}
    \cup {<<W("sunday"), W("or"), W("monday")>>,
          <<W("november"), Ord(1)>>, <<W("november"), Num(1)>>,
          <<Num(3)>>, <<W("today")>>, <<W("in"), Num(3)>>}

\* The deadline fields of the items handed to categorize_action_items
ItemDeadlines(today) ==
       {None, Some(<<>>)}
    \cup {Some(<<Iso(today + o)>>) : o \in {-1, 0, 3, 4}}
    \cup {Some(<<W("friday")>>),
          Some(<<W("in"), Num(3), W("days")>>),
          Some(<<W("november"), Ord(1)>>)}

\* Lists of items with pairwise different tasks
ItemLists(today) ==
    UNION {[1..n -> ItemDeadlines(today)] : n \in 0..MaxItems}

ItemsOf(deadlines) ==
    [i \in 1..Len(deadlines) |->
        ActionItem(TaskText(i), "Unassigned", deadlines[i], None)]

\* Sentences handed to extract_deadline (lower-cased, as text.lower() leaves them)
DeadlineSentences(today) ==
       {<<W("finish"), W("it")>>}
    \cup {<<W("by"), w>> : w \in WeekdayWords}
    \cup {<<W("by"), W("next"), w>> : w \in WeekdayWords}
    \cup {<<W("this"), w>> : w \in WeekdayWords}
    \cup {<<W("by"), w, Num(3)>> : w \in WeekdayWords}
    \cup {<<W("in"), Num(n), W("days")>> : n \in 0..MaxN}
    \cup {<<W("by"), W("november"), Ord(1)>>,
          <<W("due"), W("november"), Ord(1)>>,
          <<W("deadline"), W("is"), W("november"), Num(1)>>,
          <<W("by"), W("today")>>,
          <<W("by"), W("in"), Num(3), W("days")>>,
          <<W("by"), Iso(today + 1)>>,
          <<W("on"), Us(today + 1), W("or"), Iso(today + 2)>>,
          <<W("next"), W("monday"), W("by"), W("friday")>>}

\* Sentences of a pipeline run
RunSentences(today) ==
    {<<W("finish"), W("it")>>,
     <<W("by"), W("friday")>>,
     <<W("this"), W("monday")>>,
     <<W("in"), Num(3), W("days")>>,
     <<W("by"), Iso(today - 1)>>}

---------------------------------------------------------------------------
(* The clock inside one call *)

MaxClock == Midnight(MaxDay + 1) - 1

\* Whether the clock may advance by a tick now
CanTick == clock < MaxClock /\ clock - current_date < MaxLag

\* The positions at which the (at most one) tick of the clock can fall among
\* the k clock reads of a call: before read p, or not at all (p = k + 1)
TickPositions(k) == IF CanTick THEN 1..(k + 1) ELSE {k + 1}

\* The k clock values a call sees when the tick falls before its p-th read
Reads(k, p) == [i \in 1..k |-> IF i < p THEN clock ELSE clock + 1]

\* The clock when the call returns
ClockAfter(k, p) == IF p <= k THEN clock + 1 ELSE clock

---------------------------------------------------------------------------
(* Which reference time a date computation consults *)

\* extract_deadline reaches a datetime.now() (lines 89, 98) on this sentence
ExtractReadsClock(t) ==
    LET hits == {p \in 1..NumDeadlinePatterns : DeadlineMatchAt(p, t) # 0}
    IN  /\ hits # {}
        /\ LET p == Leftmost(hits)
               g == DeadlineGroup(p, t, DeadlineMatchAt(p, t))
           IN  NormalizeDeadline(g, 0) # g

\* parse_deadline reaches a datetime.now() (lines 58, 68) on this string
ParseReadsClock(s) ==
    /\ s # <<>>
    /\ ~(Len(s) = 1 /\ s[1].k \in {"iso", "us"})
    /\ (FirstDayIn(s) # 0 \/ InDaysAt(s) # 0)

\* is_overdue / is_upcoming compare with self.current_date (lines 81, 94)
UsesCurrentDate(item) ==
    Truthy(item.deadline) /\ parse_deadline(item.deadline[1], 0) # NoDate

---------------------------------------------------------------------------
(* Operations *)

NoCall == [op |-> "none"]

\* Every call below is made when the previous call's result has been taken
\* (Return); `last` holds one call and its result until then.
Idle == last = NoCall

\* Time passes
Tick ==
    /\ Idle
    /\ CanTick
    /\ clock' = clock + 1
    /\ UNCHANGED <<current_date, last, pre>>

\* FollowUpTracker.__init__ (also reached from SmartOfficeAgent.__init__)
NewTracker ==
    /\ Idle
    /\ current_date # clock
    /\ current_date' = clock
    /\ UNCHANGED <<clock, last, pre>>

\* tracker.parse_deadline(s)
ParseDeadlineCall ==
    /\ Idle
    /\ \E s \in DeadlineStrs(DateOf(clock)) :
           /\ last' = [op |-> "parse_deadline", arg |-> s, at |-> clock,
                       cur |-> current_date,
                       result |-> parse_deadline(s, clock)]
           /\ UNCHANGED <<clock, current_date, pre>>

\* extractor.extract_deadline(t)
ExtractDeadlineCall ==
    /\ Idle
    /\ \E t \in DeadlineSentences(DateOf(clock)) :
           /\ last' = [op |-> "extract_deadline", arg |-> t, at |-> clock,
                       result |-> extract_deadline(t, clock)]
           /\ UNCHANGED <<clock, current_date, pre>>

\* tracker.categorize_action_items(items)
CategorizeCall ==
    /\ Idle
    /\ \E ds \in ItemLists(DateOf(current_date)) :
         \E p \in TickPositions(2 * Len(ds)) :
           LET items == ItemsOf(ds)
               k == 2 * Len(ds)
               rd == Reads(k, p)
           IN  /\ last' = [op |-> "categorize", items |-> items, at |-> clock,
                           cur |-> current_date, rd |-> rd,
                           result |-> categorize_action_items(items, current_date, rd)]
               /\ clock' = ClockAfter(k, p)
               /\ UNCHANGED <<current_date, pre>>

\* SmartOfficeAgent.process_with_reminders: the date computations of one run.
\* Stage 3 resolves each action sentence's deadline (extract_deadline), stage
\* 4 categorises the items (generate_next_steps), and the reminders categorise
\* them again (generate_all_reminders).  Sentence i reads the clock at read
\* i; the two categorisations follow.
ProcessWithReminders ==
    /\ Idle
    /\ \E n \in 0..MaxSentences :
         \E ss \in [1..n -> RunSentences(DateOf(clock))] :
           \E p \in TickPositions(5 * n) :
             LET k == 5 * n
                 rd == Reads(k, p)
                 rd4 == [j \in 1..(2 * n) |-> rd[n + j]]
                 rdR == [j \in 1..(2 * n) |-> rd[3 * n + j]]
             IN  \E items \in {[i \in 1..n |->
                                   ActionItem(TaskText(i), "Unassigned",
                                              extract_deadline(ss[i], rd[i]), None)]} :
                   LET refs ==
                              {rd[i] : i \in {j \in 1..n : ExtractReadsClock(ss[j])}}
                         \cup {current_date : i \in {j \in 1..n : UsesCurrentDate(items[j])}}
                         \cup {rd[n + j] : j \in {x \in 1..(4 * n) :
                                   LET it == items[((x - 1) % (2 * n)) \div 2 + 1]
                                   IN  Truthy(it.deadline) /\ ParseReadsClock(it.deadline[1])}}
                   IN  /\ last' = [op |-> "process_with_reminders", sentences |-> ss,
                                   at |-> clock, cur |-> current_date,
                                   items |-> items,
                                   categories |->
                                       categorize_action_items(items, current_date, rd4),
                                   reminder_categories |->
                                       categorize_action_items(items, current_date, rdR),
                                   refs |-> refs]
                       /\ clock' = ClockAfter(k, p)
                       /\ UNCHANGED <<current_date, pre>>

\* A return after which the tracker's current_date has been set anew
Return_Refresh ==
    /\ ~Idle
    /\ last' = NoCall
    /\ current_date' = clock
    /\ UNCHANGED <<clock, pre>>

\* The caller takes the result of the last call
Return ==
    /\ ~Idle
    /\ last' = NoCall
    /\ UNCHANGED <<clock, current_date, pre>>

InitTracker ==
    /\ clock = Midnight(1)
    /\ current_date = clock
    /\ last = NoCall
    /\ pre = NoCall

NextTracker ==
    \/ Tick
    \/ NewTracker
    \/ ParseDeadlineCall
    \/ ExtractDeadlineCall
    \/ CategorizeCall
    \/ Return

\* The tracker and the extractor called directly
SpecTracker == InitTracker /\ [][NextTracker]_vars

NextPipeline ==
    \/ Tick
    \/ NewTracker
    \/ ProcessWithReminders
    \/ Return

\* A SmartOfficeAgent that is constructed and then runs transcripts
SpecPipeline == InitTracker /\ [][NextPipeline]_vars

---------------------------------------------------------------------------
(* FollowUpTracker: reminders and next steps *)

\* The marker a template shows for an item: the emoji of the Slack message
\* (line 145), the subject of the e-mail (lines 174-178), the bracketed word
\* of the plain text (line 211)
StatusMarker ==
    [slack |-> [overdue |-> "red circle", upcoming |-> "yellow circle",
                other |-> "green circle"],
     email |-> [overdue |-> "URGENT: Overdue Action Item",
                upcoming |-> "Upcoming Deadline",
                other |-> "Action Item Reminder"],
     text  |-> [overdue |-> "OVERDUE", upcoming |-> "UPCOMING",
                other |-> "ACTIVE"]]

\* generate_reminder_message's dispatch: any type but "slack" and "email"
\* gets the plain text template
TemplateOf(reminder_type) ==
    IF reminder_type = "slack" THEN "slack"
    ELSE IF reminder_type = "email" THEN "email"
    ELSE "text"

\* Clock reads of one rendered reminder: is_overdue and is_upcoming for the
\* marker, then parse_deadline, is_overdue and is_upcoming for the deadline
ReadsPerReminder == 5

\* The marker line: "A if self.is_overdue(item) else B if self.is_upcoming(item) else C"
MarkerOf(item, template, cur, rd) ==
    IF is_overdue(item, cur, rd[1]) THEN StatusMarker[template].overdue
    ELSE IF is_upcoming(item, cur, rd[2], UpcomingDays)
    THEN StatusMarker[template].upcoming
    ELSE StatusMarker[template].other

\* The deadline line (lines 151-165, 185-199, 217-231): the text shown, the
\* annotation after it and its number of days
DeadlineLine(item, cur, rd) ==
    IF Truthy(item.deadline)
    THEN LET deadline == parse_deadline(item.deadline[1], rd[3])
         IN  IF deadline # NoDate
             THEN IF is_overdue(item, cur, rd[4])
                  THEN [shown |-> item.deadline[1], note |-> "OVERDUE by",
                        days |-> DaysBetween(cur, deadline)]
                  ELSE IF is_upcoming(item, cur, rd[5], UpcomingDays)
                  THEN [shown |-> item.deadline[1], note |-> "Due in",
                        days |-> DaysBetween(deadline, cur)]
                  ELSE [shown |-> item.deadline[1], note |-> "", days |-> 0]
             ELSE [shown |-> item.deadline[1], note |-> "", days |-> 0]
    ELSE [shown |-> <<W("TBD")>>, note |-> "", days |-> 0]

\* The priority line: absent without a priority, upper-cased by the Slack
\* and e-mail templates (lines 167-168, 201-202, 233-234)
PriorityLine(item, template) ==
    IF Truthy(item.priority)
    THEN Some([priority |-> item.priority[1], upper |-> template # "text"])
    ELSE None

\* generate_reminder_message(action_item, reminder_type): the parts of the
\* message the templates fill in
generate_reminder_message(item, reminder_type, cur, rd) ==
    LET template == TemplateOf(reminder_type)
    IN  [template |-> template,
         marker |-> MarkerOf(item, template, cur, rd),
         task |-> item.task,
         owner |-> item.owner,
         deadline |-> DeadlineLine(item, cur, rd),
         priority |-> PriorityLine(item, template)]

\* (Mutant of RemindOrder: the items without a deadline before those on track.)
RemindOrder_NoDeadlineFirst(categories) ==
    categories["overdue"] \o categories["upcoming"]
        \o categories["no_deadline"] \o categories["on_track"]

\* The order in which generate_all_reminders walks the categories (lines 253-262)
RemindOrder(categories) ==
    categories["overdue"] \o categories["upcoming"]
        \o (categories["on_track"] \o categories["no_deadline"])

\* generate_all_reminders(action_items, reminder_type).  rd is the sequence of
\* clock values the call sees: those of categorize_action_items first, then
\* ReadsPerReminder for each reminder in the order they are rendered.
generate_all_reminders(items, reminder_type, cur, rd) ==
    LET n == Len(items)
        categories == categorize_action_items(items, cur, SubSeq(rd, 1, 2 * n))
        order == RemindOrder(categories)
    IN  [j \in 1..Len(order) |->
            generate_reminder_message(order[j], reminder_type, cur,
                SubSeq(rd, 2 * n + ReadsPerReminder * (j - 1) + 1,
                           2 * n + ReadsPerReminder * j))]

\* (Mutant of HighPriority: only the items that are on track are counted.)
HighPriority_OnTrackOnly(items, categories) ==
    SelectSeq(items, LAMBDA item : item.priority = Some("high")
                                   /\ item \in Range(categories["on_track"]))

\* [item for item in action_items if item.priority == 'high'] (line 285)
HighPriority(items, categories) ==
    SelectSeq(items, LAMBDA item : item.priority = Some("high"))

\* One entry of next_steps: which sentence, and the number in it
Step(kind, n) == [kind |-> kind, n |-> n]

\* generate_next_steps(action_items)
generate_next_steps(items, cur, rd) ==
    LET categories == categorize_action_items(items, cur, rd)
        high_priority == HighPriority(items, categories)
        entry(kind, list) == IF list # <<>> THEN <<Step(kind, Len(list))>> ELSE <<>>
    IN  entry("overdue", categories["overdue"])
        \o entry("upcoming", categories["upcoming"])
        \o entry("high-priority", high_priority)
        \o entry("no_deadline", categories["no_deadline"])

\* The deadlines of the items reminders are made for
ReminderDeadlines(today) ==
    {None,
     Some(<<Iso(today - 1)>>), Some(<<Iso(today + 1)>>), Some(<<Iso(today + 5)>>),
     Some(<<W("friday")>>), Some(<<W("in"), Num(3), W("days")>>)}

\* Lists of at most two such items, and one with an item of every category
\* in the order opposite to that of the reminders
ReminderLists(today) ==
    {<<>>} \cup {<<a>> : a \in ReminderDeadlines(today)}
           \cup {<<a, b>> : a, b \in ReminderDeadlines(today)}
           \cup {<<None, Some(<<Iso(today + 5)>>), Some(<<Iso(today + 1)>>),
                   Some(<<Iso(today - 1)>>)>>}

ReminderTypes == {"slack", "email", "text"}

\* tracker.generate_all_reminders(items, reminder_type)
GenerateAllRemindersCall ==
    /\ Idle
    /\ \E ds \in ReminderLists(DateOf(current_date)), reminder_type \in ReminderTypes :
         \E p \in TickPositions((2 + ReadsPerReminder) * Len(ds)) :
           LET items == ItemsOf(ds)
               k == (2 + ReadsPerReminder) * Len(ds)
               rd == Reads(k, p)
           IN  /\ last' = [op |-> "generate_all_reminders", items |-> items,
                           reminder_type |-> reminder_type,
                           at |-> clock, cur |-> current_date, rd |-> rd,
                           categories |->
                               categorize_action_items(items, current_date,
                                                       SubSeq(rd, 1, 2 * Len(ds))),
                           result |-> generate_all_reminders(items, reminder_type,
                                                             current_date, rd)]
               /\ clock' = ClockAfter(k, p)
               /\ UNCHANGED <<current_date, pre>>

\* The priorities of the items next steps are made for
StepPriorities == {None, Some("high"), Some("low")}

StepDeadlines(today) ==
    {None, Some(<<Iso(today - 1)>>), Some(<<Iso(today + 1)>>),
     Some(<<Iso(today + 5)>>)}

\* Lists of at most two items, and one with two urgent items of each category
StepLists(today) ==
    LET kinds == {[deadline |-> d, priority |-> q] :
                     d \in StepDeadlines(today), q \in StepPriorities}
        item(i, x) == ActionItem(TaskText(i), "Unassigned", x.deadline, x.priority)
    IN  {<<>>} \cup {<<item(1, a)>> : a \in kinds}
               \cup {<<item(1, a), item(2, b)>> : a, b \in kinds}
               \cup {[i \in 1..8 |->
                        ActionItem(TaskText(i), "Unassigned",
                                   <<None, Some(<<Iso(today - 1)>>),
                                     Some(<<Iso(today + 1)>>),
                                     Some(<<Iso(today + 5)>>)>>[((i - 1) % 4) + 1],
                                   Some("high"))]}

\* tracker.generate_next_steps(items)
GenerateNextStepsCall ==
    /\ Idle
    /\ \E items \in StepLists(DateOf(current_date)) :
         \E p \in TickPositions(2 * Len(items)) :
           LET k == 2 * Len(items)
               rd == Reads(k, p)
           IN  /\ last' = [op |-> "generate_next_steps", items |-> items,
                           at |-> clock, cur |-> current_date, rd |-> rd,
                           categories |->
                               categorize_action_items(items, current_date, rd),
                           result |-> generate_next_steps(items, current_date, rd)]
               /\ clock' = ClockAfter(k, p)
               /\ UNCHANGED <<current_date, pre>>

NextReminders ==
    \/ Tick
    \/ NewTracker
    \/ GenerateAllRemindersCall
    \/ GenerateNextStepsCall
    \/ Return

\* A tracker asked for reminders and next steps
SpecReminders == InitTracker /\ [][NextReminders]_vars

---------------------------------------------------------------------------
(* TranscriptPreprocessor: text *)

\* A transcript is a sequence of symbols: words, punctuation marks, time
\* stamps, and the whitespace characters " " and "\n".
IsSpace(x) == x \in {" ", "\n"}                 \* \s
IsCapWord(x) ==                                 \* [A-Z][a-z]+
    x \in {"John", "Sarah", "Smith", "Speaker", "Hello", "Mike", "Bob", "We",
           "Friday", "Wednesday", "November", "Report"}
IsUpperWord(x) == x \in {"A", "JOHN"}           \* [A-Z]+
IsCapLetter(x) == x \in {"A"}                   \* [A-Z]
IsDigits(x) == x \in {"1", "2"}                 \* \d+
IsClock(x) == x \in {"00:15:30"}                \* \d{2}:\d{2}:\d{2}
IsMinSec(x) == x \in {"00:15"}                  \* \d{2}:\d{2}

\* s[i..] : the suffix of s that starts at position i
From(s, i) == SubSeq(s, i, Len(s))

\* str.strip()
RECURSIVE LStrip(_)
LStrip(s) == IF s # <<>> /\ IsSpace(Head(s)) THEN LStrip(Tail(s)) ELSE s

RECURSIVE RStrip(_)
RStrip(s) ==
    IF s # <<>> /\ IsSpace(s[Len(s)]) THEN RStrip(SubSeq(s, 1, Len(s) - 1)) ELSE s

Strip(s) == RStrip(LStrip(s))

\* str.split('\n')
RECURSIVE SplitLines(_)
SplitLines(s) ==
    LET nl == {i \in 1..Len(s) : s[i] = "\n"}
    IN  IF nl = {} THEN <<s>>
        ELSE LET i == Leftmost(nl)
             IN  <<SubSeq(s, 1, i - 1)>> \o SplitLines(From(s, i + 1))

\* sep.join(parts)
RECURSIVE Join(_, _)
Join(parts, sep) ==
    IF parts = <<>> THEN <<>>
    ELSE IF Len(parts) = 1 THEN parts[1]
    ELSE parts[1] \o <<sep>> \o Join(Tail(parts), sep)

\* re.sub(r'\[\d{2}:\d{2}:\d{2}\]', '', text) and re.sub(r'\(\d{2}:\d{2}\)', ...):
\* drop every  open stamp close  triple, from one match to the next
RECURSIVE DropStamped(_, _, _)
DropStamped(s, open, kind) ==
    LET hits == {i \in 1..(Len(s) - 2) :
                    /\ s[i] = open
                    /\ IF kind = "clock" THEN IsClock(s[i + 1]) /\ s[i + 2] = "]"
                                         ELSE IsMinSec(s[i + 1]) /\ s[i + 2] = ")"}
    IN  IF hits = {} THEN s
        ELSE SubSeq(s, 1, Leftmost(hits) - 1)
             \o DropStamped(From(s, Leftmost(hits) + 3), open, kind)

\* re.sub(r'\d{2}:\d{2}:\d{2}', '', text)
DropClocks(s) == SelectSeq(s, LAMBDA x : ~IsClock(x))

\* re.sub(r'\s+', ' ', text): every run of whitespace becomes one blank (the
\* first symbol of the run stays, as a blank)
CollapseSpace(s) ==
    LET starts == SelectSeq([i \in 1..Len(s) |-> i],
                            LAMBDA i : ~IsSpace(s[i]) \/ i = 1 \/ ~IsSpace(s[i - 1]))
    IN  [k \in 1..Len(starts) |->
            IF IsSpace(s[starts[k]]) THEN " " ELSE s[starts[k]]]

\* re.sub(r'\n\s*\n', '\n\n', text): a newline, whitespace, and the last
\* newline of that whitespace become two newlines, from one match to the next
RECURSIVE NormalizeBlankLines(_)
NormalizeBlankLines(s) ==
    LET first == Leftmost({i \in 1..Len(s) : s[i] = "\n"})
        t == From(s, first)
        run == Len(t) - Len(LStrip(t))
        nl == {i \in 2..run : t[i] = "\n"}
    IN  IF first = 0 THEN s
        ELSE IF nl = {}
        THEN SubSeq(s, 1, first) \o NormalizeBlankLines(Tail(t))
        ELSE LET m == CHOOSE i \in nl : \A j \in nl : j <= i
             IN  SubSeq(s, 1, first) \o <<"\n">> \o NormalizeBlankLines(From(t, m + 1))

\* re.sub(r'\[.*?\]', '', text) and re.sub(r'\(.*?\)', '', text): drop every
\* open ... close span (shortest, within one line), left to right
RECURSIVE DropSpans(_, _, _)
DropSpans(s, open, close) ==
    LET first == Leftmost({i \in 1..Len(s) : s[i] = open})
        t == From(s, first)
        ends == {j \in 2..Len(t) :
                    /\ t[j] = close
                    /\ \A m \in 2..(j - 1) : t[m] # "\n"}
    IN  IF first = 0 THEN s
        ELSE IF ends = {}
        THEN SubSeq(s, 1, first) \o DropSpans(Tail(t), open, close)
        ELSE SubSeq(s, 1, first - 1) \o DropSpans(From(t, Leftmost(ends) + 1), open, close)

\* clean_text(text)
clean_text(text) ==
    LET t1 == DropStamped(text, "[", "clock")
        t2 == DropClocks(t1)
        t3 == DropStamped(t2, "(", "minsec")
        t4 == CollapseSpace(t3)
        t5 == NormalizeBlankLines(t4)
        t6 == DropSpans(t5, "[", "]")
        t7 == DropSpans(t6, "(", ")")
    IN  Strip(t7)

---------------------------------------------------------------------------
(* TranscriptPreprocessor: speakers and turns *)

\* Number of whitespace symbols at the start of s
SpaceRun(s) == Len(s) - Len(LStrip(s))

\* [A-Z][a-z]+(?:\s+[A-Z][a-z]+)* at the start of line: the length of the
\* longest such run of capitalised words, 0 when the line starts otherwise
RECURSIVE CapRun(_)
CapRun(line) ==
    IF line = <<>> \/ ~IsCapWord(Head(line)) THEN 0
    ELSE LET rest == Tail(line)
             gap == SpaceRun(rest)
             more == IF gap = 0 THEN 0 ELSE CapRun(From(rest, gap + 1))
         IN  IF more = 0 THEN 1 ELSE 1 + gap + more

NoMatch == [len |-> 0, name |-> <<>>]

\* Number of entries of self.speaker_patterns
NumSpeakerPatterns == 4

\* re.match(self.speaker_patterns[p], line): the length of the match and its
\* group(1), NoMatch when the pattern does not match at the start of line
SpeakerMatch(p, line) ==
    LET n == Len(line)
        Matched(e, name) ==  \* the label ends at e; trailing \s* is eaten
            [len |-> e + SpaceRun(From(line, e + 1)), name |-> name]
    IN  CASE p = 1 ->
               LET e == CapRun(line)
               IN  IF e > 0 /\ n > e /\ line[e + 1] = ":"
                   THEN Matched(e + 1, SubSeq(line, 1, e)) ELSE NoMatch
          [] p = 2 ->
               LET gap == IF n >= 1 THEN SpaceRun(Tail(line)) ELSE 0
               IN  IF /\ n >= gap + 3
                      /\ line[1] = "Speaker" /\ gap >= 1
                      /\ IsDigits(line[gap + 2]) /\ line[gap + 3] = ":"
                   THEN Matched(gap + 3, <<line[gap + 2]>>) ELSE NoMatch
          [] p = 3 ->
               IF /\ n >= 4
                  /\ line[1] = "[" /\ IsUpperWord(line[2])
                  /\ line[3] = "]" /\ line[4] = ":"
               THEN Matched(4, <<line[2]>>) ELSE NoMatch
          [] p = 4 ->
               LET ends == {j \in 3..n : line[j] = ">"}
               IN  IF n >= 3 /\ line[1] = "<" /\ line[2] # ">" /\ ends # {}
                   THEN Matched(Leftmost(ends), SubSeq(line, 2, Leftmost(ends) - 1))
                   ELSE NoMatch

\* The first pattern of speaker_patterns that matches line, 0 when none does
FirstSpeakerPattern(line) ==
    Leftmost({p \in 1..NumSpeakerPatterns : SpeakerMatch(p, line).len > 0})

Unknown == <<"Unknown">>

Turn(speaker, text) == [speaker |-> speaker, text |-> text]

\* turns with the turn under construction closed, if it has any text
CloseTurn(turns, current_speaker, current_text) ==
    IF current_text # <<>>
    THEN Append(turns, Turn(current_speaker, Join(current_text, " ")))
    ELSE turns

\* The loop of segment_speaker_turns over the remaining lines
RECURSIVE SegmentLoop(_, _, _, _)
SegmentLoop(lines, turns, current_speaker, current_text) ==
    IF lines = <<>> THEN CloseTurn(turns, current_speaker, current_text)
    ELSE LET line == Strip(Head(lines))
             p == FirstSpeakerPattern(line)
         IN  IF line = <<>>
             THEN SegmentLoop(Tail(lines), turns, current_speaker, current_text)
             ELSE IF p # 0
             THEN LET m == SpeakerMatch(p, line)
                      remaining_text == Strip(From(line, m.len + 1))
                  IN  SegmentLoop(Tail(lines),
                                  CloseTurn(turns, current_speaker, current_text),
                                  m.name,
                                  IF remaining_text # <<>>
                                  THEN <<remaining_text>> ELSE <<>>)
             ELSE SegmentLoop(Tail(lines), turns, current_speaker,
                              Append(current_text, line))

\* segment_speaker_turns(text)
segment_speaker_turns(text) ==
    SegmentLoop(SplitLines(text), <<>>, Unknown, <<>>)

\* How many lines extract_speakers scans for a leading name
NameScanLines == 50

\* extract_speakers(text): the set that sorted(list(speakers)) lists.  The
\* patterns are anchored at line starts (re.MULTILINE); the text handed in
\* is always clean_text's result.
extract_speakers(text) ==
    LET lines == SplitLines(text)
        labels == {SpeakerMatch(p, lines[i]).name :
                      <<p, i>> \in {x \in (1..NumSpeakerPatterns) \X (1..Len(lines)) :
                                       SpeakerMatch(x[1], lines[x[2]]).len > 0}}
        names == {SubSeq(lines[i], 1, CapRun(lines[i])) :
                      i \in {j \in 1..Len(lines) :
                                j <= NameScanLines /\ CapRun(lines[j]) > 0}}
    IN  labels \cup names

\* ' '.join([turn['text'] for turn in turns])
JoinTurns(turns) == Join([i \in 1..Len(turns) |-> turns[i].text], " ")

\* The dictionary preprocess_ami_format returns (lines 153-158)
AmiResult(turns, participants) ==
    [full_text |-> JoinTurns(turns),
     turns |-> turns,
     participants |-> participants,
     num_turns |-> Len(turns)]

\* preprocess_ami_format from the cleaned text on (lines 145-158)
SegmentCleaned(cleaned) ==
    AmiResult(segment_speaker_turns(cleaned), extract_speakers(cleaned))

\* preprocess_ami_format(transcript)
preprocess_ami_format(transcript) == SegmentCleaned(clean_text(transcript))

---------------------------------------------------------------------------
(* TranscriptPreprocessor: e-mail threads and format detection *)

\* "From:", "Subject:" (in any case) and a run of five dashes are symbols.

\* Positions c of a "Subject:" that a blank line ("\n\n") follows
SubjectsBeforeBlank(s) ==
    {c \in 1..Len(s) :
        /\ s[c] = "Subject:"
        /\ \E d \in (c + 1)..(Len(s) - 1) : s[d] = "\n" /\ s[d + 1] = "\n"}

\* The last position of the line that position a lies in
LineEnd(s, a) ==
    LET nl == {j \in a..Len(s) : s[j] = "\n"}
    IN  IF nl = {} THEN Len(s) ELSE Leftmost(nl) - 1

\* One match of
\*   From:\s*([^\n]+).*?Subject:.*?\n\n(.*?)(?=From:|-----|$)
\* that starts at the "From:" at position i: the sender, the body and the
\* position after the match; ok is FALSE when there is no match at i.
EmailAt(s, i) ==
    LET run == SpaceRun(From(s, i + 1))
        subjects == SubjectsBeforeBlank(s)
        \* end of the longest sender that starts at a and leaves a Subject:
        SenderEnd(a) ==
            LET lastSubject == CHOOSE c \in subjects : \A x \in subjects : x <= c
                e == LineEnd(s, a)
            IN  IF e < lastSubject THEN e ELSE lastSubject - 1
        starts == {a \in (i + 1)..(i + 1 + run) :
                      /\ a <= Len(s) /\ s[a] # "\n"
                      /\ subjects # {} /\ SenderEnd(a) >= a}
    IN  IF starts = {} THEN [ok |-> FALSE]
        ELSE LET a == CHOOSE x \in starts : \A y \in starts : y <= x
                 b == SenderEnd(a)
                 c == Leftmost({x \in subjects : x > b})
                 d == Leftmost({x \in (c + 1)..(Len(s) - 1) :
                                   s[x] = "\n" /\ s[x + 1] = "\n"})
                 e == Leftmost({x \in (d + 2)..(Len(s) + 1) :
                                   \/ x = Len(s) + 1
                                   \/ s[x] \in {"From:", "-----"}
                                   \/ x = Len(s) /\ s[x] = "\n"})
             IN  [ok |-> TRUE, sender |-> SubSeq(s, a, b),
                  body |-> SubSeq(s, d + 2, e - 1), next |-> e]

\* re.findall of that pattern from position pos on
RECURSIVE FindEmails(_, _)
FindEmails(s, pos) ==
    LET froms == {i \in pos..Len(s) : s[i] = "From:" /\ EmailAt(s, i).ok}
    IN  IF froms = {} THEN <<>>
        ELSE LET m == EmailAt(s, Leftmost(froms))
             IN  <<m>> \o FindEmails(s, m.next)

EmailDiscussion == <<"Email", " ", "Discussion">>

\* re.search(r'Subject:\s*(.+?)(?:\n|$)', ...) and the default subject
EmailSubject(s) ==
    LET hits == {c \in 1..Len(s) :
                    /\ s[c] = "Subject:"
                    /\ \E a \in (c + 1)..Len(s) :
                          /\ s[a] # "\n"
                          /\ \A x \in (c + 1)..(a - 1) : IsSpace(s[x])}
    IN  IF hits = {} THEN EmailDiscussion
        ELSE LET c == Leftmost(hits)
                 run == SpaceRun(From(s, c + 1))
                 a == IF c + 1 + run <= Len(s) THEN c + 1 + run
                      ELSE CHOOSE x \in (c + 1)..Len(s) :
                              /\ s[x] # "\n"
                              /\ \A y \in (x + 1)..Len(s) : s[y] = "\n"
                 e == IF c + 1 + run <= Len(s) THEN LineEnd(s, a) ELSE a
             IN  Strip(SubSeq(s, a, e))

\* The turns of the e-mails found (lines 182-192)
EmailTurns(emails) ==
    [i \in 1..Len(emails) |->
        Turn(Strip(emails[i].sender), clean_text(emails[i].body))]

\* The dictionary preprocess_enron_email_format returns (lines 197-203)
EnronResult(turns, subject) ==
    [full_text |-> JoinTurns(turns),
     turns |-> turns,
     participants |-> {turns[i].speaker : i \in 1..Len(turns)},
     subject |-> subject,
     num_turns |-> Len(turns)]

\* preprocess_enron_email_format(email_thread)
preprocess_enron_email_format(email_thread) ==
    EnronResult(EmailTurns(FindEmails(email_thread, 1)), EmailSubject(email_thread))

\* re.search(r'^[A-Z]:\s|^Speaker\s+\d+:', transcript, re.MULTILINE)
LooksLikeAmi(transcript) ==
    LET lines == SplitLines(transcript)
    IN  \E i \in 1..Len(lines) :
          LET line == lines[i]
              n == Len(line)
              gap == IF n >= 1 THEN SpaceRun(Tail(line)) ELSE 0
          IN  \/ /\ n >= 2 /\ IsCapLetter(line[1]) /\ line[2] = ":"
                 /\ (IF n >= 3 THEN IsSpace(line[3]) ELSE i < Len(lines))
              \/ /\ n >= gap + 3 /\ line[1] = "Speaker" /\ gap >= 1
                 /\ IsDigits(line[gap + 2]) /\ line[gap + 3] = ":"

\* re.search(r'From:\s|Subject:', transcript, re.IGNORECASE)
LooksLikeEmail(transcript) ==
    \E i \in 1..Len(transcript) :
        \/ transcript[i] = "Subject:"
        \/ /\ transcript[i] = "From:"
           /\ i < Len(transcript) /\ IsSpace(transcript[i + 1])

\* The branch preprocess_generic takes
GenericPath(transcript) ==
    IF LooksLikeAmi(transcript) THEN "ami"
    ELSE IF LooksLikeEmail(transcript) THEN "enron"
    ELSE "generic"

\* The dictionary of the generic segmentation (lines 223-228)
GenericResult(cleaned, turns) ==
    [full_text |-> cleaned,
     turns |-> turns,
     participants |-> extract_speakers(cleaned),
     num_turns |-> Len(turns)]

\* The generic segmentation from the cleaned text on (lines 220-228)
GenericCleaned(cleaned) == GenericResult(cleaned, segment_speaker_turns(cleaned))

\* preprocess_generic(transcript)
preprocess_generic(transcript) ==
    IF GenericPath(transcript) = "ami" THEN preprocess_ami_format(transcript)
    ELSE IF GenericPath(transcript) = "enron"
    THEN preprocess_enron_email_format(transcript)
    ELSE GenericCleaned(clean_text(transcript))

---------------------------------------------------------------------------
(* Preprocessing a transcript *)

\* A speaker label followed by text: "Name: text"
LabeledLine(name, text) == <<name, ":", " ">> \o text

LabelNames == {"John", "Sarah"}
LabelTexts == {<<"hi">>, <<"ok", " ", "then">>}

\* The lines transcripts are made of
Lines ==
       {LabeledLine(n, t) : n \in LabelNames, t \in LabelTexts}
    \cup {<<"hi", " ", "ok">>,
          <<>>,
          <<"Hello", " ", "all">>,
          <<"John", ":", " ", "[", "laughs", "]">>,
          <<"hi", " ", "[", "noise", "]", " ", "ok">>,
          <<"[", "00:15:30", "]", " ", "Sarah", ":", " ", "hi">>,
          <<"Speaker", " ", "1", ":", " ", "hi">>,
          <<"A", ":", " ", "ok">>,
          <<"A", ":", "ok">>,
          <<"<", "John", ">", " ", "hi">>,
          <<"From:", " ", "John">>,
          <<"Subject:", " ", "hi">>}

\* Transcripts: up to MaxLines lines joined by newlines
Transcripts ==
    {Join(ls, "\n") : ls \in UNION {[1..n -> Lines] : n \in 1..MaxLines}}

\* A transcript arrives
InitPre ==
    /\ clock = 0
    /\ current_date = 0
    /\ last = NoCall
    /\ pre \in {[op |-> "input", transcript |-> t] : t \in Transcripts}

\* preprocess_transcript(transcript, "ami") / process_transcript's "ami" branch
PreprocessAmi ==
    /\ pre.op = "input"
    /\ pre' = [op |-> "preprocess_ami_format", path |-> "ami",
               transcript |-> pre.transcript,
               result |-> preprocess_ami_format(pre.transcript)]
    /\ UNCHANGED <<clock, current_date, last>>

\* preprocess_transcript(transcript, "enron")
PreprocessEnron ==
    /\ pre.op = "input"
    /\ pre' = [op |-> "preprocess_enron_email_format", path |-> "enron",
               transcript |-> pre.transcript,
               result |-> preprocess_enron_email_format(pre.transcript)]
    /\ UNCHANGED <<clock, current_date, last>>

\* preprocess_transcript(transcript, "auto")
PreprocessGeneric ==
    /\ pre.op = "input"
    /\ pre' = [op |-> "preprocess_generic", path |-> GenericPath(pre.transcript),
               transcript |-> pre.transcript,
               result |-> preprocess_generic(pre.transcript)]
    /\ UNCHANGED <<clock, current_date, last>>

\* Format hints: the three documented ones and one that is none of them
FormatHints == {"ami", "enron", "auto", "text"}

\* The preprocessor method the convenience function preprocess_transcript
\* calls for a hint
ConvenienceMethod(format_type) ==
    IF format_type = "ami" THEN "preprocess_ami_format"
    ELSE IF format_type = "enron" THEN "preprocess_enron_email_format"
    ELSE "preprocess_generic"

\* The preprocessor method stage 1 of process_transcript calls for a hint
Stage1Method(format_type) ==
    IF format_type = "auto" THEN "preprocess_generic"
    ELSE IF format_type = "ami" THEN "preprocess_ami_format"
    ELSE "preprocess_enron_email_format"

\* The segmentation path a preprocessor method takes on a transcript
MethodPath(method, transcript) ==
    IF method = "preprocess_generic" THEN GenericPath(transcript)
    ELSE IF method = "preprocess_ami_format" THEN "ami"
    ELSE "enron"

\* What a preprocessor method returns on a transcript
MethodResult(method, transcript) ==
    IF method = "preprocess_generic" THEN preprocess_generic(transcript)
    ELSE IF method = "preprocess_ami_format" THEN preprocess_ami_format(transcript)
    ELSE preprocess_enron_email_format(transcript)

\* preprocess_transcript(transcript, format_type)
PreprocessTranscript ==
    /\ pre.op = "input"
    /\ \E format_type \in FormatHints :
         LET method == ConvenienceMethod(format_type)
         IN  pre' = [op |-> "preprocess_transcript", format_type |-> format_type,
                     path |-> MethodPath(method, pre.transcript),
                     transcript |-> pre.transcript,
                     result |-> MethodResult(method, pre.transcript)]
    /\ UNCHANGED <<clock, current_date, last>>

\* Stage 1 of agent.process_transcript(transcript, format_type=format_type)
Stage1Preprocessing ==
    /\ pre.op = "input"
    /\ \E format_type \in FormatHints :
         LET method == Stage1Method(format_type)
         IN  pre' = [op |-> "process_transcript", format_type |-> format_type,
                     path |-> MethodPath(method, pre.transcript),
                     transcript |-> pre.transcript,
                     result |-> MethodResult(method, pre.transcript)]
    /\ UNCHANGED <<clock, current_date, last>>

NextPre ==
    \/ PreprocessAmi
    \/ PreprocessEnron
    \/ PreprocessGeneric
    \/ PreprocessTranscript
    \/ Stage1Preprocessing

SpecPre == InitPre /\ [][NextPre]_vars

---------------------------------------------------------------------------
(* Words: case and length *)

\* The words that occur with a capital first letter, as <<lower, Capital>>
CapPairs ==
    {<<"john", "John">>, <<"sarah", "Sarah">>, <<"mike", "Mike">>,
     <<"bob", "Bob">>, <<"i", "I">>, <<"we", "We">>, <<"i'll", "I'll">>,
     <<"let's", "Let's">>, <<"friday", "Friday">>,
     <<"wednesday", "Wednesday">>, <<"november", "November">>,
     <<"report", "Report">>, <<"prepare", "Prepare">>, <<"send", "Send">>,
     <<"complete", "Complete">>, <<"discuss", "Discuss">>,
     <<"review", "Review">>, <<"go", "Go">>, <<"the", "The">>,
     <<"launch", "Launch">>, <<"hire", "Hire">>, <<"budget", "Budget">>,
     <<"task", "Task">>, <<"by", "By">>, <<"it", "It">>,
     <<"agree", "Agree">>}

\* str.lower() of a word
Lower(k) ==
    IF \E c \in CapPairs : c[2] = k
    THEN (CHOOSE c \in CapPairs : c[2] = k)[1]
    ELSE k

\* word[0].upper() + word[1:]
UpperFirst(k) ==
    IF \E c \in CapPairs : c[1] = k
    THEN (CHOOSE c \in CapPairs : c[1] = k)[2]
    ELSE k

\* str.lower() of a text: every token lower-cased
LowerText(t) == [i \in 1..Len(t) |-> [t[i] EXCEPT !.k = Lower(t[i].k)]]

\* str.capitalize() of a text: first character upper-cased, the rest lower-cased
Capitalize(t) ==
    [i \in 1..Len(t) |->
        IF i = 1 THEN [t[i] EXCEPT !.k = UpperFirst(Lower(t[i].k))]
        ELSE [t[i] EXCEPT !.k = Lower(t[i].k)]]

\* text[0].upper() + text[1:]
CapitalizeFirst(t) ==
    [i \in 1..Len(t) |->
        IF i = 1 THEN [t[i] EXCEPT !.k = UpperFirst(t[i].k)] ELSE t[i]]

\* Number of characters of a lower-case word
CharCount ==
    [w \in {"i"} |-> 1]
    @@ [w \in {"we", "to", "go", "it", "by", "in", "is", "or", "on"} |-> 2]
    @@ [w \in {"bob", "the", "not", "due", "and"} |-> 3]
    @@ [w \in {"i'll", "john", "mike", "will", "need", "must", "send", "plan",
               "next", "this", "days", "have", "task", "hire"} |-> 4]
    @@ [w \in {"let's", "sarah", "found", "today", "agree"} |-> 5]
    @@ [w \in {"should", "review", "report", "design", "friday", "urgent",
               "launch", "finish", "monday", "sunday", "budget"} |-> 6]
    @@ [w \in {"prepare", "discuss", "project", "decided", "tuesday"} |-> 7]
    @@ [w \in {"complete", "timeline", "november", "deadline", "thursday",
               "saturday", "approved"} |-> 8]
    @@ [w \in {"technical", "wednesday", "consensus"} |-> 9]
    @@ [w \in {"description"} |-> 11]
    @@ [w \in {".", "!", "?", ":", ","} |-> 1]

\* len() of one token
TokLen(x) ==
    CASE x.k = "num" -> IF x.v < 10 THEN 1 ELSE 2
      [] x.k = "ord" -> IF x.v < 10 THEN 3 ELSE 4
      [] x.k \in {"iso", "us"} -> 10
      [] x.k = "sfx" -> 2
      [] x.k = "run" -> x.v
      [] OTHER -> CharCount[Lower(x.k)]

\* Punctuation is written against the word before it
IsPunct(x) == x.k \in {".", "!", "?", ":", ","}

\* len() of a text whose words are separated by single blanks
RECURSIVE CharLen(_)
CharLen(t) ==
    IF t = <<>> THEN 0
    ELSE IF Len(t) = 1 THEN TokLen(t[1])
    ELSE LET h == Len(t) \div 2
         IN  CharLen(SubSeq(t, 1, h)) + (IF IsPunct(t[h + 1]) THEN 0 ELSE 1)
             + CharLen(SubSeq(t, h + 1, Len(t)))

\* \w+ as a whole word: a word or a number, not punctuation, not a date
\* literal, not a word with an apostrophe
IsWord(x) == IsWordTok(x) /\ ~IsPunct(x) /\ Lower(x.k) \notin {"i'll", "let's"}

---------------------------------------------------------------------------
(* Regular expressions over words *)

\* A pattern is a sequence of elements separated by \s+, each matching one
\* token; ws says that the pattern ends in \s+, g which element is group(1).
\* A text under substitution is its tokens and whether whitespace follows
\* the last of them.  (On the words used here no pattern starts or ends
\* inside a word.)
Lit(ws) == [c |-> "lit", ws |-> ws]
Cls(c) == [c |-> c, ws |-> {}]
Pat(els, ws, g) == [els |-> els, ws |-> ws, g |-> g]
Text(toks) == [toks |-> toks, trail |-> FALSE]

\* Whether token x matches element e (matching ignores case)
ElemOk(e, x) ==
    CASE e.c = "lit" -> x.k \notin {"num", "ord", "iso", "us", "sfx"}
                        /\ Lower(x.k) \in e.ws
      [] e.c = "w" -> IsWord(x)                             \* \w+
      [] e.c = "xday" -> IsXDay([x EXCEPT !.k = Lower(x.k)])  \* \w+day
      [] e.c = "numord" -> IsNumTok(x)       \* \d{1,2}(?:st|nd|rd|th)?
      [] e.c = "digits" -> IsNumTok(x)       \* \d{1,2}
      [] e.c = "int" -> x.k = "num"          \* \d+ before whitespace
      [] e.c = "us" -> x.k = "us"            \* \d{1,2}/\d{1,2}/\d{4}
      [] e.c = "iso" -> x.k = "iso"          \* \d{4}-\d{2}-\d{2}

\* Whether pattern pat matches the text w from token i on
MatchAt(pat, w, i) ==
    LET m == Len(pat.els)
        n == Len(w.toks)
    IN  /\ i >= 1
        /\ i + m - 1 <= n
        /\ \A j \in 1..m : ElemOk(pat.els[j], w.toks[i + j - 1])
        /\ pat.ws => IF i + m - 1 = n THEN w.trail
                     ELSE ~IsPunct(w.toks[i + m])

\* re.search(pat, text): the start of the leftmost match, 0 when none
Search(pat, w) == Leftmost({i \in 1..Len(w.toks) : MatchAt(pat, w, i)})

\* The text with the match at i cut out.  \d{1,2} leaves the st/nd/rd/th
\* of an ordinal behind.
RemoveAt(pat, w, i) ==
    LET m == Len(pat.els)
        n == Len(w.toks)
        final == w.toks[i + m - 1]
        rest == IF pat.els[m].c = "digits" /\ final.k = "ord"
                THEN <<Tok("sfx", final.v)>> ELSE <<>>
    IN  [toks |-> SubSeq(w.toks, 1, i - 1) \o rest \o SubSeq(w.toks, i + m, n),
         trail |-> IF i + m - 1 < n THEN w.trail
                   ELSE rest = <<>> /\ i > 1]

\* re.sub(pat, '', text): every match cut out, left to right from token i on
RECURSIVE SubFrom(_, _, _)
SubFrom(pat, w, i) ==
    IF i > Len(w.toks) THEN w
    ELSE IF MatchAt(pat, w, i)
         THEN LET r == RemoveAt(pat, w, i)
              IN  SubFrom(pat, r, i + (Len(r.toks) + Len(pat.els) - Len(w.toks)))
         ELSE SubFrom(pat, w, i + 1)

SubAll(pat, w) == SubFrom(pat, w, 1)

\* re.sub(pat, '', text, count=1)
SubFirst(pat, w) ==
    IF Search(pat, w) = 0 THEN w ELSE RemoveAt(pat, w, Search(pat, w))

\* self.action_phrases
action_phrases ==
    << Pat(<<Lit({"need"}), Lit({"to"})>>, TRUE, 0),
       Pat(<<Lit({"will"})>>, TRUE, 0),
       Pat(<<Lit({"should"})>>, TRUE, 0),
       Pat(<<Lit({"must"})>>, TRUE, 0),
       Pat(<<Lit({"action"}), Lit({"item", "items"})>>, FALSE, 0),
       Pat(<<Lit({"task"}), Lit({"is"}), Lit({"to"})>>, FALSE, 0),
       Pat(<<Lit({"assigned"}), Lit({"to"})>>, FALSE, 0),
       Pat(<<Lit({"responsible"}), Lit({"for"})>>, FALSE, 0),
       Pat(<<Lit({"follow"}), Lit({"up"})>>, FALSE, 0),
       Pat(<<Lit({"next"}), Lit({"step", "steps"}), Lit({"are"})>>, FALSE, 0) >>

\* self.owner_patterns
owner_patterns ==
    << Pat(<<Cls("w"), Lit({"will"})>>, TRUE, 1),
       Pat(<<Lit({"assigned"}), Lit({"to"}), Cls("w")>>, FALSE, 3),
       Pat(<<Cls("w"), Lit({"is"}), Lit({"responsible"})>>, FALSE, 1),
       Pat(<<Cls("w"), Lit({"should"})>>, TRUE, 1),
       Pat(<<Cls("w"), Lit({"need", "needs"}), Lit({"to"})>>, TRUE, 1) >>

\* self.deadline_patterns, as extract_task_description substitutes them
deadline_patterns ==
    << Pat(<<Lit({"by"}), Cls("w"), Cls("numord")>>, FALSE, 0),
       Pat(<<Lit({"by"}), Cls("xday")>>, FALSE, 0),
       Pat(<<Lit({"deadline"}), Lit({"is"}), Cls("w"), Cls("digits")>>, FALSE, 0),
       Pat(<<Lit({"due"}), Cls("w"), Cls("digits")>>, FALSE, 0),
       Pat(<<Cls("us")>>, FALSE, 0),
       Pat(<<Cls("iso")>>, FALSE, 0),
       Pat(<<Lit({"in"}), Cls("int"), Lit({"day", "days"})>>, FALSE, 0),
       Pat(<<Lit({"next"}), Cls("xday")>>, FALSE, 0),
       Pat(<<Lit({"this"}), Cls("xday")>>, FALSE, 0) >>

---------------------------------------------------------------------------
(* ActionItemExtractor: sentences and items *)

\* [.!?]
IsTerminator(x) == x.k \in {".", "!", "?"}

\* [s.strip() for s in re.split(r'[.!?]+', text)]: the stretches between
\* sentence terminators.  (Two terminators in a row give an empty sentence
\* here; the code gives one only when whitespace separates them.  An empty
\* sentence passes none of the filters applied to the result.)
RECURSIVE SplitSentences(_)
SplitSentences(t) ==
    LET cut == Leftmost({i \in 1..Len(t) : IsTerminator(t[i])})
    IN  IF cut = 0 THEN <<t>>
        ELSE <<SubSeq(t, 1, cut - 1)>> \o SplitSentences(SubSeq(t, cut + 1, Len(t)))

\* is_action_item_sentence(sentence)
is_action_item_sentence(sentence) ==
    LET w == Text(LowerText(sentence))
        opt(j, ws) == IF j <= Len(w.toks) /\ w.toks[j].k \in ws THEN j + 1 ELSE j
        lead == opt(opt(opt(1, {"please"}), {"let's", "lets"}), {"we"})
    IN  \/ \E p \in 1..Len(action_phrases) : Search(action_phrases[p], w) # 0
        \/ MatchAt(Pat(<<Lit({"should", "must", "need", "will"})>>, TRUE, 0), w, lead)

\* `a in b` for lower-case words a # b: the pairs that hold on the words used
SubstringPairs == {<<"i", "mike">>}

\* a in b, for a word a and a name b (a sequence of words and blanks)
WordInName(a, b) ==
    \E j \in 1..Len(b) : Lower(b[j]) = a \/ <<a, Lower(b[j])>> \in SubstringPairs

\* b in a, for a name b and a word a
NameInWord(b, a) ==
    Len(b) = 1 /\ (Lower(b[1]) = a \/ <<Lower(b[1]), a>> \in SubstringPairs)

Unassigned == <<"Unassigned">>

\* (Mutant of extract_owner: of the owner patterns that match, the one whose
\* match starts first in the sentence decides, not the first of the list.)
extract_owner_ByPosition(text, speaker, all_participants) ==
    LET w == Text(LowerText(text))
        hits == {p \in 1..Len(owner_patterns) : Search(owner_patterns[p], w) # 0}
    IN  IF hits # {}
        THEN LET pat == owner_patterns[
                            CHOOSE p \in hits : \A q \in hits :
                                Search(owner_patterns[p], w) <= Search(owner_patterns[q], w)]
                 potential_owner == w.toks[Search(pat, w) + pat.g - 1].k
                 valid == {j \in 1..Len(all_participants) :
                              \/ WordInName(potential_owner, all_participants[j])
                              \/ NameInWord(all_participants[j], potential_owner)}
             IN  IF valid # {} THEN all_participants[Leftmost(valid)]
                 ELSE <<UpperFirst(potential_owner)>>
        ELSE IF speaker # <<>> /\ speaker # Unknown THEN speaker
        ELSE IF Len(all_participants) > 0 THEN all_participants[1]
        ELSE Unassigned

\* extract_owner(text, speaker, all_participants); speaker is <<>> for None
extract_owner(text, speaker, all_participants) ==
    LET w == Text(LowerText(text))
        hits == {p \in 1..Len(owner_patterns) : Search(owner_patterns[p], w) # 0}
    IN  IF hits # {}
        THEN LET pat == owner_patterns[Leftmost(hits)]
                 potential_owner == w.toks[Search(pat, w) + pat.g - 1].k
                 valid == {j \in 1..Len(all_participants) :
                              \/ WordInName(potential_owner, all_participants[j])
                              \/ NameInWord(all_participants[j], potential_owner)}
             IN  IF valid # {} THEN all_participants[Leftmost(valid)]
                 ELSE <<UpperFirst(potential_owner)>>
        ELSE IF speaker # <<>> /\ speaker # Unknown THEN speaker
        ELSE IF Len(all_participants) > 0 THEN all_participants[1]
        ELSE Unassigned

\* self.priority_keywords, in dictionary order
priority_keywords ==
    << [priority |-> "high",
        keywords |-> {"urgent", "critical", "immediate", "asap", "priority"}],
       [priority |-> "medium", keywords |-> {"important", "soon"}],
       [priority |-> "low", keywords |-> {"eventually", "later"}] >>

\* extract_priority(text)
extract_priority(text) ==
    LET t == LowerText(text)
        has(tier) ==
            \/ \E j \in 1..Len(t) : t[j].k \in priority_keywords[tier].keywords
            \/ /\ tier = 3
               /\ \E j \in 1..(Len(t) - 1) : t[j].k = "when" /\ t[j + 1].k = "possible"
        hits == {tier \in 1..Len(priority_keywords) : has(tier)}
    IN  IF hits = {} THEN None
        ELSE Some(priority_keywords[Leftmost(hits)].priority)

\* re.sub of each pattern of a list in turn
RECURSIVE SubEach(_, _, _)
SubEach(pats, w, first) ==
    IF pats = <<>> THEN w
    ELSE LET r == IF first THEN SubFirst(Head(pats), w) ELSE SubAll(Head(pats), w)
         IN  IF r = w THEN SubEach(Tail(pats), w, first)
             ELSE SubEach(Tail(pats), r, first)

\* re.sub(r'^[,\s]+', '', task)
RECURSIVE DropLeadingCommas(_)
DropLeadingCommas(t) ==
    IF t # <<>> /\ Head(t).k = "," THEN DropLeadingCommas(Tail(t)) ELSE t

TaskNotFound == <<W("Task"), W("description"), W("not"), W("found")>>

\* extract_task_description(text)
extract_task_description(text) ==
    LET a == SubEach(owner_patterns, Text(text), FALSE)
        b == SubEach(deadline_patterns, a, FALSE)
        c == SubEach(action_phrases, b, TRUE)
        task == CapitalizeFirst(DropLeadingCommas(c.toks))
    IN  IF task # <<>> THEN task ELSE TaskNotFound

\* The ActionItem built from one action sentence (lines 250-261, 266-277)
ItemOf(sentence, speaker, participants, now) ==
    ActionItem(extract_task_description(sentence),
               extract_owner(sentence, speaker, participants),
               extract_deadline(LowerText(sentence), now),
               extract_priority(sentence))

\* The items of a list of sentences, in order
RECURSIVE SentenceItems(_, _, _, _)
SentenceItems(sentences, speaker, participants, now) ==
    IF sentences = <<>> THEN <<>>
    ELSE (IF is_action_item_sentence(Head(sentences))
          THEN <<ItemOf(Head(sentences), speaker, participants, now)>>
          ELSE <<>>)
         \o SentenceItems(Tail(sentences), speaker, participants, now)

\* The loop over the turns (lines 242-261)
RECURSIVE TurnItems(_, _, _)
TurnItems(turns, participants, now) ==
    IF turns = <<>> THEN <<>>
    ELSE SentenceItems(SplitSentences(Head(turns).text), Head(turns).speaker,
                       participants, now)
         \o TurnItems(Tail(turns), participants, now)

\* Flat-text sentences must be longer than this (line 238)
MinSentenceLen == 10

\* action_items before the duplicates are removed (lines 234-277)
ExtractedItems(text, turns, participants, now) ==
    IF turns # <<>> THEN TurnItems(turns, participants, now)
    ELSE SentenceItems(SelectSeq(SplitSentences(text),
                                 LAMBDA s : CharLen(s) > MinSentenceLen),
                       <<>>, participants, now)

\* Tasks must be longer than this (line 285)
MinTaskLen == 10

\* The loop with tasks compared as written, not lower-cased
RECURSIVE UniqueItems_CaseSensitive(_, _, _)
UniqueItems_CaseSensitive(action_items, seen_tasks, unique_items) ==
    IF action_items = <<>> THEN unique_items
    ELSE LET item == Head(action_items)
         IN  IF item.task \notin seen_tasks /\ CharLen(item.task) > MinTaskLen
             THEN UniqueItems_CaseSensitive(Tail(action_items),
                                            seen_tasks \cup {item.task},
                                            Append(unique_items, item))
             ELSE UniqueItems_CaseSensitive(Tail(action_items), seen_tasks,
                                            unique_items)

\* The loop that removes duplicates (lines 280-287)
RECURSIVE UniqueItems(_, _, _)
UniqueItems(action_items, seen_tasks, unique_items) ==
    IF action_items = <<>> THEN unique_items
    ELSE LET item == Head(action_items)
             task_lower == LowerText(item.task)
         IN  IF task_lower \notin seen_tasks /\ CharLen(item.task) > MinTaskLen
             THEN UniqueItems(Tail(action_items), seen_tasks \cup {task_lower},
                              Append(unique_items, item))
             ELSE UniqueItems(Tail(action_items), seen_tasks, unique_items)

\* extract_action_items(text, turns, participants); turns is <<>> for None.
\* Every datetime.now() of the call returns `now`.
extract_action_items(text, turns, participants, now) ==
    UniqueItems(ExtractedItems(text, turns, participants, now), {}, <<>>)

---------------------------------------------------------------------------
(* Extracting action items *)

\* The tokens of a text given as symbols: whitespace separates them
Tokens(s) ==
    LET ns == SelectSeq(s, LAMBDA x : ~IsSpace(x))
    IN  [i \in 1..Len(ns) |->
            IF ns[i] = "1" THEN Num(1) ELSE IF ns[i] = "2" THEN Num(2) ELSE W(ns[i])]

\* The names that are sorted below, in the order of sorted()
NamesInOrder == << <<"Hello">>, <<"John">>, <<"Mike">>, <<"Sarah">> >>

\* sorted(list(speakers))
SortedNames(S) == SelectSeq(NamesInOrder, LAMBDA n : n \in S)

\* A sentence ended by a full stop
Sentence(words) == [i \in 1..Len(words) |-> W(words[i])] \o <<W(".")>>

\* What one speaker says in a turn
TurnTexts ==
    { Sentence(<<"We", "will", "send", "the", "report">>),
      Sentence(<<"Bob", "will", "send", "the", "Report", "by", "wednesday">>),
      Sentence(<<"I", "will", "go">>),
      Sentence(<<"Sarah", "should", "review", "the", "design", "by", "wednesday">>),
      Sentence(<<"we", "must", "review", "the", "design", "urgent">>),
      Sentence(<<"I'll", "prepare", "the", "project", "plan", "by", "next", "Friday">>) }

MaxTurns == 2

TurnSpeakers == {<<"John">>, Unknown}

ParticipantLists == {<<>>, << <<"John">>, <<"Mike">>, <<"Sarah">> >>}

\* All sequences of at most n members of S
SeqsUpTo(S, n) == UNION {[1..k -> S] : k \in 0..n}

RECURSIVE Concat(_)
Concat(ss) == IF ss = <<>> THEN <<>> ELSE Head(ss) \o Concat(Tail(ss))

\* The arguments of extract_action_items: a text with its turns, or (turns
\* empty) a flat text
ExtractInputs ==
    { [text |-> Concat([i \in 1..Len(q) |-> q[i].text]), turns |-> q, participants |-> ps] :
         q \in SeqsUpTo({Turn(sp, tx) : sp \in TurnSpeakers, tx \in TurnTexts}, MaxTurns),
         ps \in ParticipantLists }
    \cup
    { [text |-> Concat(q), turns |-> <<>>, participants |-> ps] :
         q \in SeqsUpTo(TurnTexts, MaxTurns), ps \in ParticipantLists }

\* One call of extract_action_items, with the list before deduplication
ExtractRecord(in, now) ==
    [op |-> "extract_action_items", text |-> in.text, turns |-> in.turns,
     participants |-> in.participants, at |-> now,
     action_items |-> ExtractedItems(in.text, in.turns, in.participants, now),
     result |-> extract_action_items(in.text, in.turns, in.participants, now)]

\* extractor.extract_action_items(text, turns, participants)
ExtractActionItemsCall ==
    /\ Idle
    /\ \E in \in ExtractInputs : last' = ExtractRecord(in, clock)
    /\ UNCHANGED <<clock, current_date, pre>>

\* The same call once more, on the same arguments
ExtractAgain ==
    /\ last.op = "extract_action_items"
    /\ last' = ExtractRecord([text |-> last.text, turns |-> last.turns,
                              participants |-> last.participants], clock)
    /\ UNCHANGED <<clock, current_date, pre>>

\* Sentences whose owner is asked for
OwnerSentences ==
    { Sentence(<<"Bob", "will", "send", "the", "report">>),
      Sentence(<<"sarah", "will", "go">>),
      Sentence(<<"I", "will", "go">>),
      Sentence(<<"Sarah", "should", "review", "the", "task", "assigned", "to", "Mike">>),
      Sentence(<<"the", "report", "is", "assigned", "to", "John">>),
      Sentence(<<"prepare", "the", "project", "plan">>) }

OwnerSpeakers == {None, Unknown, <<"Sarah">>}

\* extractor.extract_owner(text, speaker, all_participants)
ExtractOwnerCall ==
    /\ Idle
    /\ \E text \in OwnerSentences, speaker \in OwnerSpeakers,
          all_participants \in ParticipantLists :
         last' = [op |-> "extract_owner", text |-> text, speaker |-> speaker,
                  all_participants |-> all_participants,
                  result |-> extract_owner(text, speaker, all_participants)]
    /\ UNCHANGED <<clock, current_date, pre>>

\* Time passes, between calls or while a result is held
TimePasses ==
    /\ CanTick
    /\ clock' = clock + 1
    /\ UNCHANGED <<current_date, last, pre>>

\* The transcript of example_4_with_reminders, line by line
ExampleLines ==
    << <<"John", ":", " ", "Let's", " ", "discuss", " ", "the", " ", "project",
         " ", "timeline", ".">>,
       <<"Sarah", ":", " ", "I'll", " ", "prepare", " ", "the", " ", "project",
         " ", "plan", " ", "by", " ", "next", " ", "Friday", ".">>,
       <<"Mike", ":", " ", "I'll", " ", "complete", " ", "the", " ", "technical",
         " ", "design", " ", "by", " ", "this", " ", "Wednesday", ".">> >>

ExampleTranscript == Join(ExampleLines, "\n")

\* The same lines with "I will" for "I'll"
ExampleSpelledOut ==
    Join([i \in 1..Len(ExampleLines) |->
            Concat([j \in 1..Len(ExampleLines[i]) |->
                      IF ExampleLines[i][j] = "I'll" THEN <<"I", " ", "will">>
                      ELSE <<ExampleLines[i][j]>>])],
         "\n")

\* SmartOfficeAgent.process_transcript(transcript), stages 1 and 3
ProcessTranscript ==
    /\ Idle
    /\ \E transcript \in {ExampleTranscript, ExampleSpelledOut,
                          ExampleLines[2], ExampleLines[1] \o <<"\n">> \o ExampleLines[2]} :
       \E preprocessed \in {preprocess_generic(transcript)} :
       \E turns \in {[i \in 1..Len(preprocessed.turns) |->
                        Turn(preprocessed.turns[i].speaker,
                             Tokens(preprocessed.turns[i].text))]} :
       \E participants \in {SortedNames(preprocessed.participants)} :
       \E action_items \in {extract_action_items(
                               Tokens(preprocessed.full_text), turns, participants, clock)} :
          last' = [op |-> "process_transcript", transcript |-> transcript,
                   at |-> clock, turns |-> turns, participants |-> participants,
                   result |-> action_items]
    /\ UNCHANGED <<clock, current_date, pre>>

NextExtract ==
    \/ TimePasses
    \/ ExtractActionItemsCall
    \/ ExtractOwnerCall
    \/ ExtractAgain
    \/ ProcessTranscript
    \/ Return

\* An extractor that is called, and called again, as time passes
SpecExtract == InitTracker /\ [][NextExtract]_vars

---------------------------------------------------------------------------
(* MeetingSummarizer: decisions *)

\* decision_patterns: the words each pattern starts with, before \s+(.+?).
\* (The patterns are not anchored at word starts; no word used here ends in
\* "we", "decision", "consensus" or "lets".)
decision_patterns ==
    << {<<"we", "have", "decided", "to">>, <<"we", "decided", "to">>},
       {<<"decision", "is", "to">>},
       {<<"we", "agree", "to">>},
       {<<"consensus", "is", "to">>},
       {<<"let's">>, <<"lets">>} >>

\* The number of tokens that the start of pattern p takes at token i of the
\* lower-cased text t, 0 when it does not match there: its words, then
\* whitespace, then at least one character of the clause
PrefixAt(p, t, i) ==
    LET fits == {w \in decision_patterns[p] :
                    /\ i + Len(w) <= Len(t)
                    /\ \A j \in 1..Len(w) : t[i + j - 1] = W(w[j])
                    /\ ~IsPunct(t[i + Len(w)])}
    IN  IF fits = {} THEN 0 ELSE Len(CHOOSE w \in fits : TRUE)

\* re.findall(decision_patterns[p], text_lower): group(1) of every match from
\* token i on, left to right; a clause runs up to the next "." or to the end
RECURSIVE FindClauses(_, _, _)
FindClauses(p, t, i) ==
    LET start == Leftmost({j \in i..Len(t) : PrefixAt(p, t, j) > 0})
        from == start + PrefixAt(p, t, start)
        stop == Leftmost({e \in from..Len(t) : t[e] = W(".")})
    IN  IF start = 0 THEN <<>>
        ELSE IF stop = 0 THEN <<SubSeq(t, from, Len(t))>>
        ELSE <<SubSeq(t, from, stop - 1)>> \o FindClauses(p, t, stop + 1)

\* A clause must be longer than this (line 203)
MinDecisionLen == 10

\* The loop over the matches of the patterns (lines 199-204)
RECURSIVE AddClauses(_, _)
AddClauses(matches, decisions) ==
    IF matches = <<>> THEN decisions
    ELSE LET decision == Head(matches)
         IN  IF CharLen(decision) > MinDecisionLen /\ decision \notin Range(decisions)
             THEN AddClauses(Tail(matches), Append(decisions, Capitalize(decision)))
             ELSE AddClauses(Tail(matches), decisions)

\* decision_keywords, as the words that contain one of them
decision_keywords ==
    {"decided", "decision", "agree", "agreed", "consensus", "conclusion",
     "final", "approved", "approve"}

\* any(keyword in sentence_lower for keyword in decision_keywords)
HasDecisionKeyword(sentence) ==
    \E j \in 1..Len(sentence) : Lower(sentence[j].k) \in decision_keywords

\* A keyword sentence must be longer than this (line 214)
MinKeywordSentenceLen == 15

\* The loop over the sentences (lines 211-215)
RECURSIVE AddKeywordSentences(_, _)
AddKeywordSentences(sentences, decisions) ==
    IF sentences = <<>> THEN decisions
    ELSE LET sentence == Head(sentences)
         IN  IF /\ HasDecisionKeyword(sentence)
                /\ CharLen(sentence) > MinKeywordSentenceLen
                /\ sentence \notin Range(decisions)
             THEN AddKeywordSentences(Tail(sentences), Append(decisions, sentence))
             ELSE AddKeywordSentences(Tail(sentences), decisions)

\* decisions after the loop over the patterns (lines 197-204)
PatternDecisions(text) ==
    AddClauses(Concat([p \in 1..Len(decision_patterns) |->
                          FindClauses(p, LowerText(text), 1)]),
               <<>>)

\* decisions before the limit is applied (lines 197-215)
AllDecisions(text) ==
    AddKeywordSentences(SplitSentences(text), PatternDecisions(text))

\* The most decisions that are returned (line 217)
MaxDecisions == 10

\* The list without a limit
FirstDecisions_All(decisions) == decisions

\* decisions[:10]
FirstDecisions(decisions) ==
    SubSeq(decisions, 1, IF Len(decisions) < MaxDecisions THEN Len(decisions)
                         ELSE MaxDecisions)

\* extract_decisions(text)
extract_decisions(text) == FirstDecisions(AllDecisions(text))

---------------------------------------------------------------------------
(* MeetingSummarizer: key sentences and bullets *)

\* A run of n letters, one long word
Run(n) == Tok("run", n)

\* ' '.join(parts) of texts given as tokens
JoinTexts(parts) == Concat(parts)

\* A sentence must be longer than this to be a key sentence (line 63)
MinKeySentenceLen == 20

\* The sentences of extract_key_sentences (lines 62-63)
KeySentenceCandidates(text) ==
    SelectSeq(SplitSentences(text), LAMBDA x : CharLen(x) > MinKeySentenceLen)

\* Words must be longer than this to be counted (lines 72, 91)
MinWordLen == 3

\* re.findall(r'\b\w+\b', text.lower()), the words longer than 3 characters.
\* (An apostrophe cuts a word into pieces of at most 3 characters; a date
\* literal counts as one word.)
LongWords(text) ==
    SelectSeq(LowerText(text),
              LAMBDA x : /\ ~IsPunct(x)
                         /\ x.k \notin {"i'll", "let's"}
                         /\ TokLen(x) > MinWordLen)

\* The keywords of the score (lines 95-96), as <<word, keyword>>: the words
\* used here that contain the keyword
ScoreKeywordIn ==
    {<<"decide", "decide">>, <<"decided", "decide">>, <<"decided", "decided">>,
     <<"decision", "decision">>, <<"agree", "agree">>, <<"agreed", "agree">>,
     <<"agreed", "agreed">>, <<"action", "action">>, <<"task", "task">>,
     <<"deadline", "deadline">>, <<"will", "will">>, <<"should", "should">>,
     <<"must", "must">>}

\* The score of sentences[i], in tenths (lines 77-100); i counts from 1 here
SentenceScore(text, sentences, i) ==
    LET n == Len(sentences)
        sentence == sentences[i]
        length == Cardinality({j \in 1..Len(sentence) : ~IsPunct(sentence[j])})
        word_freq == LongWords(text)
        sentence_words == LongWords(sentence)
        keywords == {c[2] : c \in {c \in ScoreKeywordIn :
                                     \E j \in 1..Len(sentence) :
                                        Lower(sentence[j].k) = c[1]}}
    IN  (IF 10 * (i - 1) < 2 * n \/ 10 * (i - 1) > 8 * n THEN 20 ELSE 0)
        + (IF 10 <= length /\ length <= 30 THEN 20 ELSE 0)
        + Cardinality({c \in (1..Len(sentence_words)) \X (1..Len(word_freq)) :
                          sentence_words[c[1]] = word_freq[c[2]]})
        + 30 * Cardinality(keywords)

\* extract_key_sentences(text, num_sentences)
extract_key_sentences(text, num_sentences) ==
    LET sentences == KeySentenceCandidates(text)
        n == Len(sentences)
        score == [i \in 1..n |-> SentenceScore(text, sentences, i)]
        \* the order after scored_sentences.sort(reverse=True): stable
        Before(i, j) == score[i] > score[j] \/ (score[i] = score[j] /\ i < j)
        selected == {sentences[i] :
                        i \in {i \in 1..n :
                                  Cardinality({j \in 1..n : Before(j, i)})
                                      < num_sentences}}
        kept == SelectSeq(sentences, LAMBDA x : x \in selected)
    IN  IF n <= num_sentences THEN sentences
        ELSE SubSeq(kept, 1, IF Len(kept) < num_sentences THEN Len(kept)
                             ELSE num_sentences)

\* max_input_length (line 125)
max_input_length == 1024

\* The offset of the first character of token k of text t
TokStart(t, k) ==
    CharLen(SubSeq(t, 1, k - 1)) + (IF k > 1 /\ ~IsPunct(t[k]) THEN 1 ELSE 0)

\* How many characters of token k of t lie in the characters a .. b-1
Overlap(t, k, a, b) ==
    LET lo == IF TokStart(t, k) > a THEN TokStart(t, k) ELSE a
        hi == IF TokStart(t, k) + TokLen(t[k]) < b THEN TokStart(t, k) + TokLen(t[k])
              ELSE b
    IN  IF hi > lo THEN hi - lo ELSE 0

\* text[i:i+max_input_length] for the c-th value of i.  A run of letters cut
\* by the end of a chunk leaves a shorter run on either side.
Chunk(t, c) ==
    LET a == (c - 1) * max_input_length
        b == c * max_input_length
        inside == SelectSeq([k \in 1..Len(t) |-> k],
                            LAMBDA k : Overlap(t, k, a, b) > 0)
    IN  [j \in 1..Len(inside) |->
            IF Overlap(t, inside[j], a, b) = TokLen(t[inside[j]]) THEN t[inside[j]]
            ELSE Run(Overlap(t, inside[j], a, b))]

\* The number of chunks of a text (line 128)
NumChunks(t) == (CharLen(t) + max_input_length - 1) \div max_input_length

\* Only runs of letters are cut by the chunk ends of t
CutsOnlyRuns(t) ==
    \A c \in 1..NumChunks(t) : \A k \in 1..Len(t) :
        LET o == Overlap(t, k, (c - 1) * max_input_length, c * max_input_length)
        IN  o = 0 \/ o = TokLen(t[k]) \/ t[k].k = "run"

\* Key sentences in place of a chunk's summary (line 137), of a text's (line 52)
ChunkKeySentences == 2
DefaultKeySentences == 6

\* One fallback for the whole text as soon as one call raises
summarize_with_model_AllOrNothing(text, outcomes) ==
    IF \E c \in 1..Len(outcomes) : outcomes[c] = None
    THEN JoinTexts(extract_key_sentences(text, DefaultKeySentences))
    ELSE JoinTexts([c \in 1..Len(outcomes) |-> outcomes[c][1]])

\* summarize_with_model(text), reached with self.summarizer set.
\* outcomes[c] is what the c-th call of self.summarizer gives: None when it
\* raises, else its summary_text.
summarize_with_model(text, outcomes) ==
    IF CharLen(text) > max_input_length
    THEN JoinTexts(Concat([c \in 1..NumChunks(text) |->
             LET chunk == Chunk(text, c)
             IN  IF outcomes[c] # None THEN <<outcomes[c][1]>>
                 ELSE IF chunk = <<>> THEN <<>>
                 ELSE extract_key_sentences(chunk, ChunkKeySentences)]))
    ELSE IF outcomes[1] = None
    THEN JoinTexts(extract_key_sentences(text, DefaultKeySentences))
    ELSE outcomes[1][1]

\* A bullet must be longer than this (line 160)
MinBulletLen == 10

\* The bullets made of the sentences of summary_text (lines 159-175)
Bullets(summary_text, num_bullets) ==
    LET sentences == SelectSeq(SplitSentences(summary_text),
                               LAMBDA x : CharLen(x) > MinBulletLen)
        n == Len(sentences)
        sentences_per_bullet == n \div num_bullets
        groups == (n + sentences_per_bullet - 1) \div sentences_per_bullet
    IN  IF n <= num_bullets THEN sentences
        ELSE [g \in 1..(IF groups < num_bullets THEN groups ELSE num_bullets) |->
                 JoinTexts(SubSeq(sentences, (g - 1) * sentences_per_bullet + 1,
                                  IF g * sentences_per_bullet < n
                                  THEN g * sentences_per_bullet ELSE n))]

\* generate_summary_bullets(text, num_bullets); with_model is
\* self.use_model and self.summarizer
generate_summary_bullets(text, num_bullets, with_model, outcomes) ==
    LET summary_text ==
            IF with_model THEN summarize_with_model(text, outcomes)
            ELSE JoinTexts(extract_key_sentences(text, num_bullets))
    IN  [summary_text |-> summary_text,
         result |-> IF summary_text = <<>> THEN <<>>
                    ELSE Bullets(summary_text, num_bullets)]

---------------------------------------------------------------------------
(* Summarizing a meeting *)

\* The sentences that texts with decisions are made of
DecisionSentences ==
    { Sentence(<<"We", "have", "decided", "to", "launch", "in", "November">>),
      Sentence(<<"we", "decided", "to", "launch", "in", "november">>),
      Sentence(<<"The", "budget", "is", "approved", "today">>),
      Sentence(<<"We", "decided", "to", "go">>),
      <<W("We"), W("decided"), W("to"), W("launch"), W("today"), W("!")>>,
      Sentence(<<"Let's", "agree", "the", "consensus", "is", "to", "launch", "and",
                 "we", "decided", "to", "hire", "Bob", "today">>),
      Sentence(<<"Let's", "agree", "the", "consensus", "is", "to", "launch", "and",
                 "we", "decided", "to", "hire", "Sarah", "today">>),
      Sentence(<<"Bob", "will", "send", "the", "Report">>) }

MaxDecisionSentences == 3

DecisionTexts ==
    {Concat(q) : q \in SeqsUpTo(DecisionSentences, MaxDecisionSentences)}

\* summarizer.extract_decisions(text), with the list after the loop over the
\* patterns and the list before the limit
ExtractDecisionsCall ==
    /\ Idle
    /\ \E text \in DecisionTexts :
         last' = [op |-> "extract_decisions", text |-> text,
                  pattern_decisions |-> PatternDecisions(text),
                  decisions |-> AllDecisions(text),
                  result |-> extract_decisions(text)]
    /\ UNCHANGED <<clock, current_date, pre>>

\* The sentences that texts to summarize are made of
SummarySentences ==
    { Sentence(<<"We", "have", "decided", "to", "launch", "in", "November">>),
      Sentence(<<"The", "budget", "is", "approved", "today">>),
      Sentence(<<"I", "will", "go">>) }

LongSentence ==
    Sentence(<<"Sarah", "should", "review", "the", "design", "by", "wednesday",
               "and", "we", "must", "send", "the", "report", "today">>)

MaxSummarySentences == 3

\* Texts of more than max_input_length characters
LongTexts ==
    LET s1 == Sentence(<<"We", "have", "decided", "to", "launch", "in", "November">>)
        s2 == Sentence(<<"The", "budget", "is", "approved", "today">>)
    IN  { s1 \o <<Run(1000), W(".")>> \o s2,
          LongSentence \o s1 \o s2 \o <<Run(990), W(".")>> \o s1 \o LongSentence \o s2 }

SummaryTexts ==
    {t \in {Concat(q) : q \in SeqsUpTo(SummarySentences, MaxSummarySentences)}
             \cup {LongSentence \o LongSentence} \cup LongTexts :
        t # <<>> /\ CutsOnlyRuns(t)}

BulletTargets == {2, 6}

\* What the external summarizer writes when it does not fail
ModelSummaries ==
    { Sentence(<<"Bob", "will", "send", "the", "Report">>),
      <<W("We"), W("decided"), W("to"), W("launch"), W("today"), W("!")>>
          \o Sentence(<<"The", "budget", "is", "approved", "today">>)
          \o Sentence(<<"I", "will", "go">>)
          \o Sentence(<<"Bob", "will", "send", "the", "Report">>) }

\* summarizer.generate_summary_bullets(text, num_bullets), without the model
\* (no call of the external summarizer) or with it
GenerateSummaryBulletsCall ==
    /\ Idle
    /\ \E text \in SummaryTexts, num_bullets \in BulletTargets, with_model \in BOOLEAN :
       \E outcomes \in IF with_model
                       THEN [1..(IF NumChunks(text) = 0 THEN 1 ELSE NumChunks(text)) ->
                                {None} \cup {Some(m) : m \in ModelSummaries}]
                       ELSE {<<>>} :
       \E r \in {generate_summary_bullets(text, num_bullets, with_model, outcomes)} :
          last' = [op |-> "generate_summary_bullets", text |-> text,
                   num_bullets |-> num_bullets, with_model |-> with_model,
                   outcomes |-> outcomes,
                   summary_text |-> r.summary_text, result |-> r.result]
    /\ UNCHANGED <<clock, current_date, pre>>

\* summarizer.extract_key_sentences(text, num_sentences)
ExtractKeySentencesCall ==
    /\ Idle
    /\ \E text \in SummaryTexts, num_sentences \in BulletTargets :
       \E r \in {extract_key_sentences(text, num_sentences)} :
          last' = [op |-> "extract_key_sentences", text |-> text,
                   num_sentences |-> num_sentences, result |-> r]
    /\ UNCHANGED <<clock, current_date, pre>>

NextSummary ==
    \/ ExtractDecisionsCall
    \/ GenerateSummaryBulletsCall
    \/ ExtractKeySentencesCall
    \/ Return

SpecSummary == InitTracker /\ [][NextSummary]_vars

---------------------------------------------------------------------------
(* Properties of the tracker and of deadline resolution *)

\* The bag of the entries of a sequence
BagOfSeq(seq) ==
    [x \in Range(seq) |-> Cardinality({i \in 1..Len(seq) : seq[i] = x})]

\* item is one of the entries of the list categories[c]
InCat(categories, c, item) == item \in Range(categories[c])

IsCategorize == last.op = "categorize"

\* C1: categorize_action_items puts every input item in exactly one of the
\* lists overdue, upcoming, on_track, no_deadline: the four lists together
\* hold the input items, each once, and no two lists share an item.
\* (The items of a list are told apart by their task: the lists handed in
\* hold pairwise different tasks.)
C1_Partition ==
    IsCategorize =>
        LET r == last.result
        IN  /\ DOMAIN r = Categories
            /\ BagOfSeq(r["overdue"]) (+) BagOfSeq(r["upcoming"])
                 (+) BagOfSeq(r["on_track"]) (+) BagOfSeq(r["no_deadline"])
               = BagOfSeq(last.items)
            /\ \A c1, c2 \in Categories :
                 c1 # c2 => Range(r[c1]) \cap Range(r[c2]) = {}
            /\ \A i \in 1..Len(last.items) :
                 Cardinality({c \in Categories : InCat(r, c, last.items[i])}) = 1

\* A call that fills two different lists
C1_Witness ==
    /\ IsCategorize
    /\ Len(last.items) = 2
    /\ Len(last.result["overdue"]) = 1
    /\ Len(last.result["on_track"]) = 1

\* The weekday offset of the specification: 7 when D falls on weekday idx,
\* otherwise (idx - weekday(D)) mod 7
SpecOffset(idx, D) ==
    IF Weekday(D) = idx THEN 7 ELSE (idx - Weekday(D)) % 7

\* C2: resolving the weekday name W at the date D gives D + 7 days when D
\* falls on W and D + ((index(W) - weekday(D)) mod 7) days otherwise, in
\* parse_deadline and in extract_deadline alike; the result is 1 to 7 days
\* after D and never D itself.
C2_WeekdayResolution ==
    \A w \in 1..Len(day_names) :
        LET name == W(day_names[w])
            D == last.at
            off == SpecOffset(w - 1, D)
        IN  /\ ( /\ last.op = "parse_deadline"
                 /\ last.arg \in {<<name>>, <<W("next"), name>>} )
                => /\ last.result = PlusDays(D, off)
                   /\ DaysBetween(last.result, D) \in 1..7
                   /\ DateOf(last.result) # DateOf(D)
            /\ ( /\ last.op = "extract_deadline"
                 /\ last.arg \in {<<W("by"), name>>, <<W("by"), W("next"), name>>,
                                  <<W("this"), name>>, <<W("by"), name, Num(3)>>} )
                => /\ last.result = Some(<<Iso(DateOf(D) + off)>>)
                   /\ off \in 1..7

\* Friday resolved on a Friday, by the extractor: a week later
C2_Witness ==
    /\ last.op = "extract_deadline"
    /\ last.arg = <<W("by"), W("friday")>>
    /\ Weekday(last.at) = 4
    /\ last.result = Some(<<Iso(DateOf(last.at) + 7)>>)

\* C3: an item whose deadline resolves to a date is overdue iff that date is
\* before the tracker's reference now, upcoming iff the whole days from the
\* reference now to it are 0..3, and on_track otherwise; an item without a
\* deadline field is no_deadline.
C3_Classification ==
    IsCategorize =>
        \A i \in 1..Len(last.items) :
            LET item == last.items[i]
                r == last.result
            IN  /\ item.deadline = None => InCat(r, "no_deadline", item)
                /\ Truthy(item.deadline) =>
                     LET d1 == parse_deadline(item.deadline[1], last.rd[2 * i - 1])
                         d2 == parse_deadline(item.deadline[1], last.rd[2 * i])
                         days == DaysBetween(d2, last.cur)
                     IN  d1 # NoDate =>
                           /\ InCat(r, "overdue", item) <=> d1 < last.cur
                           /\ InCat(r, "upcoming", item) <=> (0 <= days /\ days <= 3)
                           /\ InCat(r, "on_track", item) <=>
                                 ~(d1 < last.cur) /\ ~(0 <= days /\ days <= 3)
                           /\ ~InCat(r, "no_deadline", item)

\* An item due exactly three days after the reference now is upcoming, next
\* to one due later that is on_track
C3_Witness ==
    /\ IsCategorize
    /\ Len(last.items) = 2
    /\ last.items[1].deadline = Some(<<Iso(DateOf(last.cur) + 3)>>)
    /\ Midnight(DateOf(last.cur) + 3) - last.cur = 3 * TicksPerDay
    /\ InCat(last.result, "upcoming", last.items[1])
    /\ last.items[2].deadline = Some(<<Iso(DateOf(last.cur) + 4)>>)
    /\ InCat(last.result, "on_track", last.items[2])

\* C4: an item whose deadline string is present but does not parse is put in
\* on_track and in no other list, with its deadline text as it was.
C4_UnparsedOnTrack ==
    IsCategorize =>
        \A i \in 1..Len(last.items) :
            LET item == last.items[i]
                r == last.result
            IN  ( /\ Truthy(item.deadline)
                  /\ parse_deadline(item.deadline[1], last.rd[2 * i - 1]) = NoDate
                  /\ parse_deadline(item.deadline[1], last.rd[2 * i]) = NoDate )
                => /\ \E j \in 1..Len(r["on_track"]) :
                        /\ r["on_track"][j].task = item.task
                        /\ r["on_track"][j].deadline = item.deadline
                   /\ \A c \in Categories \ {"on_track"} :
                        \A j \in 1..Len(r[c]) : r[c][j].task # item.task

\* 'november 1st' ends in on_track
C4_Witness ==
    /\ IsCategorize
    /\ Len(last.items) = 1
    /\ last.items[1].deadline = Some(<<W("november"), Ord(1)>>)
    /\ last.result["on_track"] = last.items
    /\ last.result["no_deadline"] = <<>>

\* C5: parse_deadline("in N days") is the tracker's reference now (the
\* current_date it classifies against) plus N days.
C5_InNDaysFromReferenceNow ==
    \A n \in 0..MaxN :
        ( /\ last.op = "parse_deadline"
          /\ last.arg = <<W("in"), Num(n), W("days")>> )
        => last.result = PlusDays(last.cur, n)

\* C6: all date computations of one pipeline run use one and the same
\* reference-now value.
C6_SingleReferenceNow ==
    last.op = "process_with_reminders" => Cardinality(last.refs) <= 1

\* C7: a categorize call classifies by the time current at that call: an
\* item whose ISO deadline has passed by then is overdue.
C7_RecomputedAtCall ==
    IsCategorize =>
        \A i \in 1..Len(last.items) :
            \A d \in 0..(MaxDay + 5) :
                ( /\ last.items[i].deadline = Some(<<Iso(d)>>)
                  /\ Midnight(d) < last.at )
                => InCat(last.result, "overdue", last.items[i])

---------------------------------------------------------------------------
(* Properties of preprocessing *)

\* The call went down the labeled-turn path or the generic fallback
IsTurnPath ==
    /\ pre.op \in {"preprocess_ami_format", "preprocess_generic"}
    /\ pre.path \in {"ami", "generic"}

\* C8: a transcript of several lines "Name: text" is segmented into one turn
\* per line, in order, with the line's label as speaker and the rest of the
\* line as text.
C8_OneTurnPerLabeledLine ==
    IsTurnPath =>
        \A n \in 2..MaxLines :
            \A f \in [1..n -> LabelNames \X LabelTexts] :
                pre.transcript = Join([i \in 1..n |-> LabeledLine(f[i][1], f[i][2])], "\n")
                => pre.result.turns = [i \in 1..n |-> Turn(<<f[i][1]>>, f[i][2])]

\* C9: when some line of the transcript has the form "Name: ...", there is
\* at least one turn and every turn's speaker, "Unknown" included, is one of
\* the participants.
C9_SpeakersAreParticipants ==
    ( /\ IsTurnPath
      /\ \E i \in 1..Len(SplitLines(pre.transcript)) :
            SplitLines(pre.transcript)[i] \in
                {LabeledLine(n, t) : n \in LabelNames, t \in LabelTexts} )
    => /\ Len(pre.result.turns) >= 1
       /\ \A i \in 1..Len(pre.result.turns) :
            pre.result.turns[i].speaker \in pre.result.participants

\* C10: on the labeled-turn path and on the generic path full_text is the
\* turns' texts joined by single blanks.
C10_FullTextIsJoinedTurns ==
    IsTurnPath =>
        pre.result.full_text =
            Join([i \in 1..Len(pre.result.turns) |-> pre.result.turns[i].text], " ")

\* Some line of t starts with a single capital letter and a colon, or with
\* "Speaker N:"
HasLabelLine(t) ==
    \E i \in 1..Len(SplitLines(t)) :
        LET line == SplitLines(t)[i]
            n == Len(line)
            gap == IF n >= 1 THEN SpaceRun(Tail(line)) ELSE 0
        IN  \/ n >= 2 /\ IsCapLetter(line[1]) /\ line[2] = ":"
            \/ /\ n >= gap + 3 /\ line[1] = "Speaker" /\ gap >= 1
               /\ IsDigits(line[gap + 2]) /\ line[gap + 3] = ":"

\* t contains "From:" or "Subject:"
HasEmailMarker(t) == \E i \in 1..Len(t) : t[i] \in {"From:", "Subject:"}

\* C23: with the hint auto, a transcript with a line that starts with a
\* single capital letter and a colon or with "Speaker N:" goes down the
\* labeled-turn path, also when it contains "From:" or "Subject:"; otherwise
\* one that contains "From:" or "Subject:" goes down the e-mail path;
\* otherwise the generic path is taken.
C23_DetectionPriority ==
    pre.op = "preprocess_generic" =>
        pre.path = IF HasLabelLine(pre.transcript) THEN "ami"
                   ELSE IF HasEmailMarker(pre.transcript) THEN "enron"
                   ELSE "generic"

\* C28: what clean_text returns (the generic path's full_text) has no two
\* whitespace characters in a row and none at its start or end, also when
\* the input has a bracketed annotation between two words.
C28_NoWhitespaceRuns ==
    (pre.op = "preprocess_generic" /\ pre.path = "generic") =>
        LET cleaned == pre.result.full_text
        IN  /\ \A i \in 1..(Len(cleaned) - 1) :
                  ~(IsSpace(cleaned[i]) /\ IsSpace(cleaned[i + 1]))
            /\ cleaned # <<>> =>
                  ~IsSpace(cleaned[1]) /\ ~IsSpace(cleaned[Len(cleaned)])

\* C29: for every format hint, stage 1 of process_transcript takes the
\* segmentation path (and so returns the result) that preprocess_transcript
\* takes for the same transcript and hint: "ami" the labeled-turn path,
\* "enron" the e-mail path, anything else the auto-detecting generic one.
C29_SamePathForEveryHint ==
    pre.op = "process_transcript" =>
        /\ pre.path = MethodPath(ConvenienceMethod(pre.format_type), pre.transcript)
        /\ pre.path = IF pre.format_type = "ami" THEN "ami"
                      ELSE IF pre.format_type = "enron" THEN "enron"
                      ELSE GenericPath(pre.transcript)

---------------------------------------------------------------------------
(* Properties of action-item extraction *)

\* C15: when the deadline pattern that decides a sentence is "in N days",
\* extract_deadline returns the ISO text of today + N days.
C15_InNDaysToIso ==
    \A n \in 0..MaxN :
        ( /\ last.op = "extract_deadline"
          /\ last.arg = <<W("in"), Num(n), W("days")>> )
        => last.result = Some(<<Iso(DateOf(last.at) + n)>>)

\* The first day after the day of tick t that falls on weekday dayIdx
NextFuture(dayIdx, t) ==
    CHOOSE d \in (DateOf(t) + 1)..(DateOf(t) + 7) : d % 7 = dayIdx

IsExampleRun ==
    last.op = "process_transcript" /\ last.transcript = ExampleTranscript

\* C11: processing the three-line example transcript yields exactly two
\* action items, Sarah's and then Mike's, due on the next future Friday and
\* the next future Wednesday counted from the day of the run.
C11_ExampleYieldsTwoItems ==
    IsExampleRun =>
        /\ Len(last.result) = 2
        /\ last.result[1].owner = <<"Sarah">>
        /\ last.result[2].owner = <<"Mike">>
        /\ last.result[1].deadline = Some(<<Iso(NextFuture(4, last.at))>>)
        /\ last.result[2].deadline = Some(<<Iso(NextFuture(2, last.at))>>)

\* Two calls of extract_action_items in a row on the same arguments
IsRepeatedExtract ==
    /\ last.op = "extract_action_items"
    /\ last'.op = "extract_action_items"
    /\ last'.text = last.text
    /\ last'.turns = last.turns
    /\ last'.participants = last.participants

\* C12: extract_action_items called twice on the same text, turns and
\* participants returns the same items in the same order, equal in task,
\* owner, deadline and priority.
C12_RepeatableExtraction ==
    [][IsRepeatedExtract => last'.result = last.result]_vars

IsExtract == last.op = "extract_action_items"

\* The positions of the items that stay: the task is longer than 10
\* characters and no earlier item has the same lower-cased task
KeptPositions(items) ==
    SelectSeq([i \in 1..Len(items) |-> i],
              LAMBDA i : /\ CharLen(items[i].task) > 10
                         /\ \A j \in 1..(i - 1) :
                               LowerText(items[j].task) # LowerText(items[i].task))

\* C13: the list extract_action_items returns is the extracted items, in the
\* order they were found, without those whose lower-cased task was seen in
\* an earlier item and without those whose task has at most 10 characters;
\* no two returned items have the same lower-cased task.
C13_DedupKeepsFirst ==
    IsExtract =>
        /\ last.result =
             [k \in 1..Len(KeptPositions(last.action_items)) |->
                 last.action_items[KeptPositions(last.action_items)[k]]]
        /\ \A i, j \in 1..Len(last.result) :
              LowerText(last.result[i].task) = LowerText(last.result[j].task) => i = j

\* An extraction in which the second item repeats the first one's task in
\* another case and is dropped
C13_Witness ==
    /\ IsExtract
    /\ Len(last.action_items) = 2
    /\ last.action_items[1].task # last.action_items[2].task
    /\ LowerText(last.action_items[1].task) = LowerText(last.action_items[2].task)
    /\ last.result = <<last.action_items[1]>>

\* Participants are supplied, and every turn is spoken by one of them or by
\* nobody known
SpeakersAmongParticipants ==
    /\ last.participants # <<>>
    /\ \A i \in 1..Len(last.turns) :
          last.turns[i].speaker \in Range(last.participants) \cup {Unknown}

\* C14: every action item extract_action_items returns is owned by one of
\* the participants supplied or by "Unassigned".
C14_OwnerIsParticipantOrUnassigned ==
    (IsExtract /\ SpeakersAmongParticipants) =>
        \A i \in 1..Len(last.result) :
            last.result[i].owner \in Range(last.participants) \cup {Unassigned}

IsOwner == last.op = "extract_owner"

\* The owner patterns that match the sentence of the call
OwnerHits == {p \in 1..Len(owner_patterns) :
                 Search(owner_patterns[p], Text(LowerText(last.text))) # 0}

\* The name captured by the first of them
CapturedName ==
    LET w == Text(LowerText(last.text))
        pat == owner_patterns[Leftmost(OwnerHits)]
    IN  w.toks[Search(pat, w) + pat.g - 1].k

\* The participants that contain the captured name or are contained in it
Containing ==
    {j \in 1..Len(last.all_participants) :
        \/ WordInName(CapturedName, last.all_participants[j])
        \/ NameInWord(last.all_participants[j], CapturedName)}

\* C22: extract_owner follows a fixed chain.  The first owner pattern (in the
\* order of the list) that matches gives a captured name, and the owner is the
\* first participant that contains it or is contained in it, when there is
\* one.  When no owner pattern matches, the owner is the speaker if one is
\* given and it is not "Unknown", else the first participant, else
\* "Unassigned".
C22_OwnerChain ==
    IsOwner =>
        IF OwnerHits # {}
        THEN Containing # {} =>
                 last.result = last.all_participants[Leftmost(Containing)]
        ELSE IF last.speaker # None /\ last.speaker # Unknown
        THEN last.result = last.speaker
        ELSE IF last.all_participants # <<>>
        THEN last.result = last.all_participants[1]
        ELSE last.result = Unassigned

\* C22 witness: two owner patterns match, the one that is first in the list
\* matching later in the sentence, and its name is replaced by a participant
\* even though a speaker is given
C22_Witness ==
    /\ IsOwner
    /\ Cardinality(OwnerHits) = 2
    /\ LET w == Text(LowerText(last.text))
       IN  Search(owner_patterns[Leftmost(OwnerHits)], w)
               > Search(owner_patterns[CHOOSE p \in OwnerHits : p # Leftmost(OwnerHits)], w)
    /\ last.speaker = <<"Sarah">>
    /\ Containing # {}
    /\ last.result = <<"Mike">>

---------------------------------------------------------------------------
(* Properties of the summarizer *)

IsDecisions == last.op = "extract_decisions"

LaunchInNovember ==
    Sentence(<<"We", "have", "decided", "to", "launch", "in", "November">>)

\* entry states the clause "launch in november", in whatever case
StatesLaunch(entry) ==
    \E i \in 1..(Len(entry) - 2) :
        LowerText(SubSeq(entry, i, i + 2)) = <<W("launch"), W("in"), W("november")>>

\* C17: for the text "We have decided to launch in November." the decision
\* is in the list returned by extract_decisions exactly once, capitalized:
\* the sentence scan adds no second entry for what a pattern has captured.
C17_DecisionListedOnce ==
    (IsDecisions /\ last.text = LaunchInNovember) =>
        /\ Cardinality({i \in 1..Len(last.result) : StatesLaunch(last.result[i])}) = 1
        /\ \E i \in 1..Len(last.result) :
              /\ StatesLaunch(last.result[i])
              /\ last.result[i][1].k = UpperFirst(Lower(last.result[i][1].k))

\* C18: no two entries of the list returned by extract_decisions are equal
\* ignoring case.
C18_NoDuplicateDecisions ==
    IsDecisions =>
        \A i, j \in 1..Len(last.result) :
            LowerText(last.result[i]) = LowerText(last.result[j]) => i = j

\* C19: extract_decisions returns at most 10 entries, the first 10 found:
\* the clauses captured by the patterns, then the keyword sentences.
C19_FirstTenInDiscoveryOrder ==
    IsDecisions =>
        /\ Len(last.result) <= 10
        /\ Len(last.result) = IF Len(last.decisions) < 10 THEN Len(last.decisions) ELSE 10
        /\ \A i \in 1..Len(last.result) : last.result[i] = last.decisions[i]
        /\ Len(last.pattern_decisions) <= Len(last.decisions)
        /\ \A i \in 1..Len(last.pattern_decisions) :
              last.decisions[i] = last.pattern_decisions[i]
        /\ \A i \in (Len(last.pattern_decisions) + 1)..Len(last.decisions) :
              last.decisions[i] \in Range(SplitSentences(last.text))

\* More than 10 decisions are found, fewer than 10 of them by the patterns:
\* the list returned ends with a keyword sentence and leaves one out
C19_Witness ==
    /\ IsDecisions
    /\ Len(last.decisions) > 10
    /\ Len(last.pattern_decisions) < 10
    /\ Len(last.result) = 10

IsBullets == last.op = "generate_summary_bullets"

\* C16: without the model, when no more sentences of the text are longer
\* than 20 characters than bullets are asked for, generate_summary_bullets
\* returns those sentences, one bullet each, unmodified and in their order.
C16_ShortInputPassthrough ==
    ( /\ IsBullets
      /\ ~last.with_model
      /\ Len(KeySentenceCandidates(last.text)) <= last.num_bullets )
    => last.result = KeySentenceCandidates(last.text)

\* What stands for the c-th chunk in the summary: the external summary, or
\* the key sentences of the chunk when the summarizer failed on it
ChunkPart(c) ==
    IF last.outcomes[c] # None THEN <<last.outcomes[c][1]>>
    ELSE IF Len(last.outcomes) = 1 THEN extract_key_sentences(last.text, 6)
    ELSE extract_key_sentences(Chunk(last.text, c), 2)

\* C20: with the model, whichever calls of the external summarizer fail,
\* generate_summary_bullets returns bullets: they are made of the parts of
\* the chunks in chunk order, a failed chunk's part being its key sentences
\* and every other chunk's part its external summary.
C20_FallbackPerChunk ==
    (IsBullets /\ last.with_model) =>
        /\ last.summary_text =
              Concat(Concat([c \in 1..Len(last.outcomes) |-> ChunkPart(c)]))
        /\ last.result = Bullets(last.summary_text, last.num_bullets)
        /\ \A c \in 1..Len(last.outcomes) :
              last.outcomes[c] # None =>
                 \E i \in 0..(Len(last.summary_text) - Len(last.outcomes[c][1])) :
                    SubSeq(last.summary_text, i + 1, i + Len(last.outcomes[c][1]))
                        = last.outcomes[c][1]

\* A text of two chunks: the summarizer fails on the first and not on the
\* second, and bullets are returned
C20_Witness ==
    /\ IsBullets
    /\ last.with_model
    /\ Len(last.outcomes) = 2
    /\ last.outcomes[1] = None
    /\ last.outcomes[2] # None
    /\ last.result # <<>>

---------------------------------------------------------------------------
(* Properties of reminders and next steps *)

IsReminders == last.op = "generate_all_reminders"

\* The position of the item with this task in a list of items
ItemIndex(items, task) == CHOOSE i \in 1..Len(items) : items[i].task = task

\* The key of the list the call's categories hold an item in
KeyOf(categories, item) == CHOOSE c \in Categories : InCat(categories, c, item)

\* The place of a category in the order of the reminders
CategoryRank == [overdue |-> 1, upcoming |-> 2, on_track |-> 3, no_deadline |-> 4]

\* C24: generate_all_reminders returns one reminder per input item; the
\* reminders of the overdue items come first, then those of the upcoming, of
\* the on_track and of the no_deadline items, and inside each group the
\* reminders follow the input order of the items.
C24_RemindersByCategory ==
    IsReminders =>
        LET items == last.items
            result == last.result
            idx(j) == ItemIndex(items, result[j].task)
            rank(j) == CategoryRank[KeyOf(last.categories, items[idx(j)])]
        IN  /\ Len(result) = Len(items)
            /\ {result[j].task : j \in 1..Len(result)}
                   = {items[i].task : i \in 1..Len(items)}
            /\ \A j1, j2 \in 1..Len(result) :
                   j1 < j2 => \/ rank(j1) < rank(j2)
                              \/ rank(j1) = rank(j2) /\ idx(j1) < idx(j2)

\* C24 witness: reminders for four items, one of each category, handed in with
\* the overdue item last and rendered with it first
C24_Witness ==
    /\ IsReminders
    /\ Len(last.result) = 4
    /\ \A c \in Categories : Len(last.categories[c]) = 1
    /\ last.result[1].task = last.items[4].task
    /\ last.result[4].task = last.items[1].task

IsNextSteps == last.op = "generate_next_steps"

\* How many items of a list satisfy a condition
CountOf(items, Test(_)) == Cardinality({i \in 1..Len(items) : Test(items[i])})

\* C25: generate_next_steps emits at most four entries, in the order overdue,
\* upcoming, high-priority, no-deadline; an entry is there iff its count is
\* not zero, and the high-priority count is the number of items whose priority
\* is high, whatever their category.
C25_NextStepsOrderAndCounts ==
    IsNextSteps =>
        LET items == last.items
            InCategory(c) == CountOf(items, LAMBDA x : InCat(last.categories, c, x))
            counts == << Step("overdue", InCategory("overdue")),
                         Step("upcoming", InCategory("upcoming")),
                         Step("high-priority",
                              CountOf(items, LAMBDA x : x.priority = Some("high"))),
                         Step("no_deadline", InCategory("no_deadline")) >>
        IN  /\ Len(last.result) <= 4
            /\ last.result = SelectSeq(counts, LAMBDA e : e.n # 0)

\* C25 witness: all four entries, with more high-priority items than any one
\* category holds, some of them overdue
C25_Witness ==
    /\ IsNextSteps
    /\ Len(last.result) = 4
    /\ last.result[3].n > last.result[1].n
    /\ last.result[3].n > Len(last.categories["on_track"])
    /\ \E i \in 1..Len(last.items) :
           /\ last.items[i].priority = Some("high")
           /\ InCat(last.categories, "overdue", last.items[i])

\* C26: in every reminder of every channel the status is that of the item's
\* category: the overdue marker and an "OVERDUE by" annotation iff
\* categorize_action_items puts the item in overdue, the upcoming marker and a
\* "Due in" annotation iff it puts it in upcoming; marker and annotation of
\* one reminder agree.
C26_StatusKeyedOnCategory ==
    IsReminders =>
        \A j \in 1..Len(last.result) :
            LET r == last.result[j]
                item == last.items[ItemIndex(last.items, r.task)]
                key == KeyOf(last.categories, item)
                marker == StatusMarker[r.template]
            IN  /\ (r.marker = marker.overdue /\ r.deadline.note = "OVERDUE by")
                       <=> key = "overdue"
                /\ (r.marker = marker.upcoming /\ r.deadline.note = "Due in")
                       <=> key = "upcoming"
                /\ r.marker = marker.overdue <=> r.deadline.note = "OVERDUE by"
                /\ r.marker = marker.upcoming <=> r.deadline.note = "Due in"

---------------------------------------------------------------------------
(* Properties of a pipeline run *)

IsRun == last.op = "process_with_reminders"

\* Sentence i of the run named a weekday that the extractor turned into a date
WeekdayResolved(i) ==
    /\ ExtractReadsClock(last.sentences[i])
    /\ FirstDayIn(last.sentences[i]) # 0
    /\ last.items[i].deadline # None
    /\ last.items[i].deadline[1][1].k = "iso"

\* C30: in one run, an item whose deadline the extractor resolved from a
\* weekday phrase has a date 1 to 7 days after the day of the extraction and
\* is never put in overdue by the agent's tracker, neither for the next steps
\* nor for the reminders: it is upcoming or on_track, at any time of day and
\* for a tracker of any age.
C30_WeekdayDeadlineNotOverdue ==
    IsRun =>
        \A i \in 1..Len(last.items) :
            WeekdayResolved(i) =>
                LET item == last.items[i]
                    d == item.deadline[1][1].v
                IN  /\ d >= DateOf(last.at) + 1
                    /\ d <= DateOf(last.at + 1) + 7
                    /\ \A cats \in {last.categories, last.reminder_categories} :
                          /\ ~InCat(cats, "overdue", item)
                          /\ InCat(cats, "upcoming", item) \/ InCat(cats, "on_track", item)

\* C30 witness: a run after noon by an agent built earlier, with a weekday
\* named on that very weekday (a week ahead, on track) and one a day ahead
\* (upcoming)
C30_Witness ==
    /\ IsRun
    /\ last.cur < last.at
    /\ last.at % TicksPerDay # 0
    /\ \E i \in 1..Len(last.items) :
           /\ WeekdayResolved(i)
           /\ last.items[i].deadline[1][1].v = DateOf(last.at) + 7
           /\ InCat(last.categories, "on_track", last.items[i])
    /\ \E i \in 1..Len(last.items) :
           /\ WeekdayResolved(i)
           /\ InCat(last.categories, "upcoming", last.items[i])
           /\ InCat(last.reminder_categories, "upcoming", last.items[i])

---------------------------------------------------------------------------
(* Properties of key-sentence selection *)

\* C27: when more sentences qualify than are asked for, extract_key_sentences
\* returns exactly that many: the highest-scoring occurrences, the earlier
\* one first among equal scores, in the order they have in the text; also
\* when a sentence occurs in the text more than once.
C27_TopOccurrencesInOrder ==
    last.op = "extract_key_sentences" =>
        LET sentences == KeySentenceCandidates(last.text)
            n == Len(sentences)
            score == [i \in 1..n |-> SentenceScore(last.text, sentences, i)]
            Outranks(j, i) == score[j] > score[i] \/ (score[j] = score[i] /\ j < i)
            top == SelectSeq([i \in 1..n |-> i],
                             LAMBDA i : Cardinality({j \in 1..n : Outranks(j, i)})
                                           < last.num_sentences)
        IN  n > last.num_sentences =>
                /\ Len(last.result) = last.num_sentences
                /\ last.result = [k \in 1..Len(top) |-> sentences[top[k]]]

=============================================================================
